---------------------------- MODULE Spec2Model ----------------------------
(***************************************************************************)
(* A model of the httpcodec crate: incremental encoders and decoders for   *)
(* HTTP/1.x messages.  Bytes are naturals in 0..255, byte strings are      *)
(* sequences of bytes.  Every decoder is an operator taking the decoder's  *)
(* state, the input slice and the end-of-stream flag and returning the new *)
(* state, the number of bytes consumed and the error kind ("ok" when the   *)
(* call returned Ok).  Every encoder is an operator taking the encoder's   *)
(* state and the length of the output buffer and returning the new state,  *)
(* the bytes it stored into the buffer and the count it returned.          *)
(***************************************************************************)
EXTENDS Integers, Sequences, FiniteSets, TLC

VARIABLES
    mode,     \* the codec under test: "request", "response" or "chunked"
    phase,    \* "new", "encoding", "decoding", "done" or "error"
    item,     \* the message handed to start_encoding (NoItem when the input is raw wire bytes)
    enc,      \* the state of the RequestEncoder / ResponseEncoder
    wire,     \* the bytes the caller collected from the encode calls so far
    input,    \* the bytes offered to the decoder
    pos,      \* how many bytes of input the decode calls have consumed
    dec,      \* the state of the decoder under test
    out,      \* the decoded item (NoItem until the decoder produced one)
    err       \* the error kind of the call that failed ("ok" while none failed)

vars == <<mode, phase, item, enc, wire, input, pos, dec, out, err>>

-----------------------------------------------------------------------------
(* Bytes                                                                   *)

HTAB == 9
LF == 10
CR == 13
SP == 32
PLUS == 43
COLON == 58
DIGIT0 == 48
UPPER_A == 65
LOWER_A == 97

CRLF == <<CR, LF>>

\* Bind(v, G) is G(v): it names an intermediate value, such as the result
\* of a call, for the expression that uses it.
Bind(v, G(_)) == G(v)

Min(a, b) == IF a < b THEN a ELSE b

\* &buf[off..]
Rest(buf, off) == SubSeq(buf, off + 1, Len(buf))

\* &buf[..n]
Take(buf, n) == SubSeq(buf, 1, n)

\* buf.iter().position(pred): the 0-based index of the first byte satisfying
\* pred, or -1 for None.
RECURSIVE PositionFrom(_, _, _)
PositionFrom(buf, P(_), i) ==
    IF i > Len(buf) THEN -1
    ELSE IF P(buf[i]) THEN i - 1
    ELSE PositionFrom(buf, P, i + 1)

Position(buf, P(_)) == PositionFrom(buf, P, 1)

All(buf, P(_)) == \A i \in 1..Len(buf) : P(buf[i])

-----------------------------------------------------------------------------
(* Lexical classes (util.rs)                                               *)

is_whitespace(b) == b = SP \/ b = HTAB

is_digit(b) == DIGIT0 <= b /\ b <= DIGIT0 + 9

is_alpha(b) == (LOWER_A <= b /\ b <= LOWER_A + 25) \/ (UPPER_A <= b /\ b <= UPPER_A + 25)

\* ! # $ % & ' * + - . ^ _ ` | ~
TcharSymbols == {33, 35, 36, 37, 38, 39, 42, 43, 45, 46, 94, 95, 96, 124, 126}

is_tchar(b) == b \in TcharSymbols \/ is_digit(b) \/ is_alpha(b)

is_vchar(b) == 33 <= b /\ b <= 126

is_phrase_char(b) == is_vchar(b) \/ is_whitespace(b)

not_tchar(b) == ~is_tchar(b)
not_vchar(b) == ~is_vchar(b)
not_whitespace(b) == ~is_whitespace(b)
not_phrase_char(b) == ~is_phrase_char(b)

\* u8::to_ascii_lowercase, as str::eq_ignore_ascii_case applies it
ToLower(b) == IF UPPER_A <= b /\ b <= UPPER_A + 25 THEN b + 32 ELSE b

eq_ignore_ascii_case(a, b) ==
    /\ Len(a) = Len(b)
    /\ \A i \in 1..Len(a) : ToLower(a[i]) = ToLower(b[i])

-----------------------------------------------------------------------------
(* ByteCount                                                               *)

Unknown == <<"Unknown">>
Infinite == <<"Infinite">>
Finite(n) == <<"Finite", n>>

\* The value every decode operator returns.
Ret(st, n, e) == [st |-> st, n |-> n, err |-> e]

-----------------------------------------------------------------------------
(* CopyableBytesDecoder<[u8; N]>: fills a fixed array.                     *)

CopyableBytesDecoder_new(N) == [bytes |-> [i \in 1..N |-> 0], offset |-> 0]

CopyableBytesDecoder_is_idle(s) == s.offset = Len(s.bytes)

\* A decoder that stores each call's bytes from the start of the array
\* rather than after the bytes of the calls before.
CopyableBytesDecoder_decode_from_start(s, buf, eos) ==
    Bind(Min(Len(buf), Len(s.bytes) - s.offset), LAMBDA size :
        Bind([i \in 1..Len(s.bytes) |-> IF i <= size THEN buf[i] ELSE s.bytes[i]], LAMBDA bytes :
        Bind([bytes |-> bytes, offset |-> s.offset + size], LAMBDA t :
        IF t.offset # Len(t.bytes) /\ eos
        THEN Ret(t, size, "UnexpectedEos")
        ELSE Ret(t, size, "ok"))))

CopyableBytesDecoder_decode(s, buf, eos) ==
    Bind(Min(Len(buf), Len(s.bytes) - s.offset), LAMBDA size :
        Bind(    [i \in 1..Len(s.bytes) |->
                    IF s.offset < i /\ i <= s.offset + size THEN buf[i - s.offset]
                    ELSE s.bytes[i]], LAMBDA bytes :
        Bind([bytes |-> bytes, offset |-> s.offset + size], LAMBDA t :
        IF t.offset # Len(t.bytes) /\ eos
        THEN Ret(t, size, "UnexpectedEos")
        ELSE Ret(t, size, "ok"))))


CopyableBytesDecoder_finish_decoding(s) ==
    IF CopyableBytesDecoder_is_idle(s)
    THEN [st |-> [s EXCEPT !.offset = 0], item |-> s.bytes, err |-> "ok"]
    ELSE [st |-> s, item |-> <<>>, err |-> "IncompleteDecoding"]

-----------------------------------------------------------------------------
(* HTTP version (version.rs)                                               *)

\* "HTTP/1.0" and "HTTP/1.1"
HTTP_1_0 == <<72, 84, 84, 80, 47, 49, 46, 48>>
HTTP_1_1 == <<72, 84, 84, 80, 47, 49, 46, 49>>

HttpVersion_as_str(v) == IF v = "V1_0" THEN HTTP_1_0 ELSE HTTP_1_1

None == "None"

HttpVersionDecoder_new == [cbd |-> CopyableBytesDecoder_new(8), item |-> None]

\* A decoder that takes every "HTTP/1.x" other than "HTTP/1.0" for V1_1.
HttpVersionDecoder_decode_any_minor(s, buf, eos) ==
    Bind(CopyableBytesDecoder_decode(s.cbd, buf, eos), LAMBDA r :
        IF r.err # "ok" THEN Ret([s EXCEPT !.cbd = r.st], r.n, r.err)
        ELSE IF ~CopyableBytesDecoder_is_idle(r.st) THEN Ret([s EXCEPT !.cbd = r.st], r.n, "ok")
        ELSE IF r.st.bytes = HTTP_1_0
             THEN Ret([cbd |-> [r.st EXCEPT !.offset = 0], item |-> "V1_0"], r.n, "ok")
        ELSE IF Take(r.st.bytes, 7) = Take(HTTP_1_1, 7)
             THEN Ret([cbd |-> [r.st EXCEPT !.offset = 0], item |-> "V1_1"], r.n, "ok")
        ELSE Ret([s EXCEPT !.cbd = r.st], r.n, "InvalidInput"))

\* The inner CopyableBytesDecoder yields its array once full; the array is
\* matched against the two literals at once.
HttpVersionDecoder_decode(s, buf, eos) ==
    Bind(CopyableBytesDecoder_decode(s.cbd, buf, eos), LAMBDA r :
        IF r.err # "ok" THEN Ret([s EXCEPT !.cbd = r.st], r.n, r.err)
        ELSE IF ~CopyableBytesDecoder_is_idle(r.st) THEN Ret([s EXCEPT !.cbd = r.st], r.n, "ok")
        ELSE IF r.st.bytes = HTTP_1_0
             THEN Ret([cbd |-> [r.st EXCEPT !.offset = 0], item |-> "V1_0"], r.n, "ok")
        ELSE IF r.st.bytes = HTTP_1_1
             THEN Ret([cbd |-> [r.st EXCEPT !.offset = 0], item |-> "V1_1"], r.n, "ok")
        ELSE Ret([s EXCEPT !.cbd = r.st], r.n, "InvalidInput"))

-----------------------------------------------------------------------------
(* SpaceDecoder and CrlfDecoder (util.rs)                                  *)

SpaceDecoder_new == [cbd |-> CopyableBytesDecoder_new(1), done |-> FALSE]

SpaceDecoder_decode(s, buf, eos) ==
    Bind(CopyableBytesDecoder_decode(s.cbd, buf, eos), LAMBDA r :
        IF r.err # "ok" THEN Ret([s EXCEPT !.cbd = r.st], r.n, r.err)
        ELSE IF ~CopyableBytesDecoder_is_idle(r.st) THEN Ret([s EXCEPT !.cbd = r.st], r.n, "ok")
        ELSE IF r.st.bytes[1] # SP THEN Ret([s EXCEPT !.cbd = r.st], r.n, "InvalidInput")
        ELSE Ret([cbd |-> r.st, done |-> TRUE], r.n, "ok"))

CrlfDecoder_new == CopyableBytesDecoder_new(2)

CrlfDecoder_is_idle(s) == CopyableBytesDecoder_is_idle(s)

CrlfDecoder_decode(s, buf, eos) ==
    Bind(CopyableBytesDecoder_decode(s, buf, eos), LAMBDA r :
        IF r.err # "ok" THEN r
        ELSE IF CopyableBytesDecoder_is_idle(r.st) /\ r.st.bytes # CRLF
             THEN Ret(r.st, r.n, "InvalidInput")
        ELSE r)

-----------------------------------------------------------------------------
(* Status code and reason phrase (status.rs)                               *)

\* StatusCode::as_bytes
StatusCode_as_bytes(code) ==
    Bind((code \div 100) % 10, LAMBDA a :
        Bind((code \div 10) % 10, LAMBDA b :
        Bind(code % 10, LAMBDA c :
        <<a + DIGIT0, b + DIGIT0, c + DIGIT0>>)))

StatusCodeDecoder_new == [code |-> CopyableBytesDecoder_new(3), idle |-> FALSE]

StatusCodeDecoder_is_idle(s) == s.idle

StatusCodeDecoder_decode(s, buf, eos) ==
    Bind(    IF CopyableBytesDecoder_is_idle(s.code) THEN Ret(s.code, 0, "ok")
             ELSE CopyableBytesDecoder_decode(s.code, buf, eos), LAMBDA r :
        Bind([s EXCEPT !.code = r.st], LAMBDA t :
        Bind(r.n, LAMBDA offset :
        IF r.err # "ok" THEN Ret(t, offset, r.err)
        ELSE IF ~CopyableBytesDecoder_is_idle(r.st) THEN Ret(t, offset, "ok")
        ELSE IF offset < Len(buf)
             THEN IF buf[offset + 1] # SP THEN Ret(t, offset, "InvalidInput")
                  ELSE Ret([t EXCEPT !.idle = TRUE], offset + 1, "ok")
        ELSE IF eos THEN Ret(t, offset, "UnexpectedEos")
        ELSE Ret(t, offset, "ok"))))

\* A finish_decoding that builds the status code without StatusCode::new's
\* range check.
StatusCodeDecoder_finish_decoding_unchecked(s) ==
    Bind(CopyableBytesDecoder_finish_decoding(s.code), LAMBDA f :
        Bind(f.item, LAMBDA b :
        Bind(IF Len(b) = 3 /\ b[1] = PLUS THEN Rest(b, 1) ELSE b, LAMBDA digits :
        Bind(    IF Len(digits) = 3
                 THEN (digits[1] - DIGIT0) * 100 + (digits[2] - DIGIT0) * 10 + (digits[3] - DIGIT0)
                 ELSE (digits[1] - DIGIT0) * 10 + (digits[2] - DIGIT0), LAMBDA value :
        IF f.err # "ok" THEN [st |-> s, item |-> 0, err |-> f.err]
        ELSE IF ~All(digits, is_digit)
             THEN [st |-> [s EXCEPT !.code = f.st], item |-> 0, err |-> "InvalidInput"]
        ELSE [st |-> [code |-> f.st, idle |-> FALSE], item |-> value, err |-> "ok"]))))

\* str::parse::<u16> of the three bytes followed by StatusCode::new: an
\* optional '+' and decimal digits; anything below 100 is rejected.
StatusCodeDecoder_finish_decoding(s) ==
    Bind(CopyableBytesDecoder_finish_decoding(s.code), LAMBDA f :
        Bind(f.item, LAMBDA b :
        Bind(IF Len(b) = 3 /\ b[1] = PLUS THEN Rest(b, 1) ELSE b, LAMBDA digits :
        Bind(    IF Len(digits) = 3
                 THEN (digits[1] - DIGIT0) * 100 + (digits[2] - DIGIT0) * 10 + (digits[3] - DIGIT0)
                 ELSE (digits[1] - DIGIT0) * 10 + (digits[2] - DIGIT0), LAMBDA value :
        IF f.err # "ok" THEN [st |-> s, item |-> 0, err |-> f.err]
        ELSE IF ~All(digits, is_digit)
             THEN [st |-> [s EXCEPT !.code = f.st], item |-> 0, err |-> "InvalidInput"]
        ELSE IF ~(100 <= value /\ value < 1000)
             THEN [st |-> [s EXCEPT !.code = f.st], item |-> 0, err |-> "InvalidInput"]
        ELSE [st |-> [code |-> f.st, idle |-> FALSE], item |-> value, err |-> "ok"]))))

ReasonPhraseDecoder_new == [size |-> 0, remaining |-> Unknown]

ReasonPhraseDecoder_is_idle(s) == s.remaining = Finite(0)

ReasonPhraseDecoder_decode(s, buf, eos) ==
    IF ReasonPhraseDecoder_is_idle(s) THEN Ret(s, 0, "ok")
    ELSE
    Bind(Position(buf, not_phrase_char), LAMBDA n :
        Bind(s.remaining = Unknown /\ n >= 0 /\ buf[n + 1] # CR, LAMBDA bad :
        Bind(IF s.remaining # Unknown THEN s
             ELSE IF n >= 0 THEN [size |-> s.size + n, remaining |-> Finite(1)]
             ELSE [s EXCEPT !.size = s.size + Len(buf)], LAMBDA t :
        Bind(     IF s.remaining # Unknown THEN 0
                  ELSE IF n >= 0 THEN n + 1 ELSE Len(buf), LAMBDA offset :
        IF bad THEN Ret(s, 0, "InvalidInput")
        ELSE IF t.remaining = Finite(1) /\ offset < Len(buf)
             THEN IF buf[offset + 1] # LF THEN Ret(t, offset, "InvalidInput")
                  ELSE Ret([t EXCEPT !.remaining = Finite(0)], offset + 1, "ok")
        ELSE IF eos THEN Ret(t, offset, "UnexpectedEos")
        ELSE Ret(t, offset, "ok")))))

ReasonPhraseDecoder_finish_decoding(s) ==
    IF s.remaining # Finite(0) THEN [st |-> s, item |-> 0, err |-> "IncompleteDecoding"]
    ELSE [st |-> ReasonPhraseDecoder_new, item |-> s.size, err |-> "ok"]

-----------------------------------------------------------------------------
(* Request target (request_target.rs) and method                           *)

RequestTargetDecoder_new == [size |-> 0, idle |-> FALSE]

RequestTargetDecoder_decode(s, buf, eos) ==
    Bind(Position(buf, not_vchar), LAMBDA n :
        IF s.idle THEN Ret(s, 0, "ok")
        ELSE IF n >= 0
             THEN IF buf[n + 1] # SP THEN Ret(s, 0, "InvalidInput")
                  ELSE Ret([size |-> s.size + n, idle |-> TRUE], n + 1, "ok")
        ELSE IF eos THEN Ret(s, 0, "UnexpectedEos")
        ELSE Ret([s EXCEPT !.size = s.size + Len(buf)], Len(buf), "ok"))

RequestTargetDecoder_finish_decoding(s) ==
    IF ~s.idle THEN [st |-> s, item |-> 0, err |-> "IncompleteDecoding"]
    ELSE [st |-> RequestTargetDecoder_new, item |-> s.size, err |-> "ok"]

\* The method decoder the request line decoder is built on: a run of tchar
\* ended by a single space, yielding the length of the run.
MethodDecoder_new == [size |-> 0, idle |-> FALSE]

MethodDecoder_decode(s, buf, eos) ==
    Bind(Position(buf, not_tchar), LAMBDA n :
        IF s.idle THEN Ret(s, 0, "ok")
        ELSE IF n >= 0
             THEN IF buf[n + 1] # SP THEN Ret(s, 0, "InvalidInput")
                  ELSE Ret([size |-> s.size + n, idle |-> TRUE], n + 1, "ok")
        ELSE IF eos THEN Ret(s, 0, "UnexpectedEos")
        ELSE Ret([s EXCEPT !.size = s.size + Len(buf)], Len(buf), "ok"))

MethodDecoder_finish_decoding(s) ==
    IF ~s.idle THEN [st |-> s, item |-> 0, err |-> "IncompleteDecoding"]
    ELSE [st |-> MethodDecoder_new, item |-> s.size, err |-> "ok"]

-----------------------------------------------------------------------------
(* Start lines (response.rs, request.rs)                                   *)

\* Option<T>: None is the empty sequence, Some(x) the one-element sequence.
NoItem == <<>>
Some(x) == <<x>>

\* The value a decode operator of an item-returning decoder returns.
RetI(st, n, e, it) == [st |-> st, n |-> n, err |-> e, item |-> it]

-----------------------------------------------------------------------------
(* Tokens and methods (token.rs, method.rs)                                *)

\* TokenDecoder<Vec<u8>>: the bytes pushed so far.  decode returns the
\* count and, once it has an item, the item (there is no finish_decoding).
TokenDecoder_new == [bytes |-> <<>>]

\* TokenDecoder::decode: bytes are pushed up to the first byte that is not
\* a tchar, where the token is taken; at the end of the stream whatever has
\* been pushed is taken.
TokenDecoder_decode(s, buf, eos) ==
    Bind(Position(buf, not_tchar), LAMBDA i :
        IF i >= 0
        THEN RetI(TokenDecoder_new, i, "ok", Some(s.bytes \o Take(buf, i)))
        ELSE IF eos THEN RetI(TokenDecoder_new, Len(buf), "ok", Some(s.bytes \o buf))
        ELSE RetI([bytes |-> s.bytes \o buf], Len(buf), "ok", NoItem))

\* MethodDecoder<B>(TokenDecoder<B>) of method.rs: the token as a Method
MethodDecoderB_new == TokenDecoder_new

MethodDecoderB_decode(s, buf, eos) == TokenDecoder_decode(s, buf, eos)

StatusLineDecoder_new ==
    [stage |-> 0,
     version |-> HttpVersionDecoder_new,
     space |-> SpaceDecoder_new,
     status |-> StatusCodeDecoder_new,
     reason |-> ReasonPhraseDecoder_new]

\* Tuple4Decoder<HttpVersionDecoder, SpaceDecoder, StatusCodeDecoder,
\* ReasonPhraseDecoder>: the four decoders run in order on the same slice,
\* each from where the previous one stopped; the item is the StatusLine.
RECURSIVE StatusLineDecoder_run(_, _, _, _)
StatusLineDecoder_run(s, buf, off, eos) ==
    Bind(Rest(buf, off), LAMBDA b :
        CASE s.stage = 0 ->
              Bind(HttpVersionDecoder_decode(s.version, b, eos), LAMBDA r :
                  Bind([s EXCEPT !.version = r.st], LAMBDA t :
                  IF r.err # "ok" THEN RetI(t, off + r.n, r.err, NoItem)
                  ELSE IF r.st.item = None THEN RetI(t, off + r.n, "ok", NoItem)
                  ELSE StatusLineDecoder_run([t EXCEPT !.stage = 1], buf, off + r.n, eos)))
          [] s.stage = 1 ->
              Bind(SpaceDecoder_decode(s.space, b, eos), LAMBDA r :
                  Bind([s EXCEPT !.space = r.st], LAMBDA t :
                  IF r.err # "ok" THEN RetI(t, off + r.n, r.err, NoItem)
                  ELSE IF ~r.st.done THEN RetI(t, off + r.n, "ok", NoItem)
                  ELSE StatusLineDecoder_run([t EXCEPT !.stage = 2], buf, off + r.n, eos)))
          [] s.stage = 2 ->
              Bind(StatusCodeDecoder_decode(s.status, b, eos), LAMBDA r :
                  Bind([s EXCEPT !.status = r.st], LAMBDA t :
                  IF r.err # "ok" THEN RetI(t, off + r.n, r.err, NoItem)
                  ELSE IF ~StatusCodeDecoder_is_idle(r.st) THEN RetI(t, off + r.n, "ok", NoItem)
                  ELSE StatusLineDecoder_run([t EXCEPT !.stage = 3], buf, off + r.n, eos)))
          [] OTHER ->
              Bind(ReasonPhraseDecoder_decode(s.reason, b, eos), LAMBDA r :
                  Bind([s EXCEPT !.reason = r.st], LAMBDA t :
                  Bind(StatusCodeDecoder_finish_decoding(s.status), LAMBDA code :
                  Bind(ReasonPhraseDecoder_finish_decoding(r.st), LAMBDA size :
                  IF r.err # "ok" THEN RetI(t, off + r.n, r.err, NoItem)
                  ELSE IF ~ReasonPhraseDecoder_is_idle(r.st) THEN RetI(t, off + r.n, "ok", NoItem)
                  ELSE IF code.err # "ok" THEN RetI(t, off + r.n, code.err, NoItem)
                  ELSE RetI(StatusLineDecoder_new, off + r.n, "ok",
                            Some([http_version |-> s.version.item,
                                  status_code |-> code.item,
                                  reason_phrase_size |-> size.item])))))))

StatusLineDecoder_decode(s, buf, eos) == StatusLineDecoder_run(s, buf, 0, eos)

RequestLineDecoder_new ==
    [stage |-> 0,
     method |-> MethodDecoder_new,
     target |-> RequestTargetDecoder_new,
     version |-> HttpVersionDecoder_new]

\* Tuple3Decoder<MethodDecoder, RequestTargetDecoder, HttpVersionDecoder>:
\* the item is complete with the last byte of the version.
RECURSIVE RequestLineDecoder_run(_, _, _, _)
RequestLineDecoder_run(s, buf, off, eos) ==
    Bind(Rest(buf, off), LAMBDA b :
        CASE s.stage = 0 ->
              Bind(MethodDecoder_decode(s.method, b, eos), LAMBDA r :
                  Bind([s EXCEPT !.method = r.st], LAMBDA t :
                  IF r.err # "ok" THEN RetI(t, off + r.n, r.err, NoItem)
                  ELSE IF ~r.st.idle THEN RetI(t, off + r.n, "ok", NoItem)
                  ELSE RequestLineDecoder_run([t EXCEPT !.stage = 1], buf, off + r.n, eos)))
          [] s.stage = 1 ->
              Bind(RequestTargetDecoder_decode(s.target, b, eos), LAMBDA r :
                  Bind([s EXCEPT !.target = r.st], LAMBDA t :
                  IF r.err # "ok" THEN RetI(t, off + r.n, r.err, NoItem)
                  ELSE IF ~r.st.idle THEN RetI(t, off + r.n, "ok", NoItem)
                  ELSE RequestLineDecoder_run([t EXCEPT !.stage = 2], buf, off + r.n, eos)))
          [] OTHER ->
              Bind(HttpVersionDecoder_decode(s.version, b, eos), LAMBDA r :
                  Bind([s EXCEPT !.version = r.st], LAMBDA t :
                  IF r.err # "ok" THEN RetI(t, off + r.n, r.err, NoItem)
                  ELSE IF r.st.item = None THEN RetI(t, off + r.n, "ok", NoItem)
                  ELSE RetI(RequestLineDecoder_new, off + r.n, "ok",
                            Some([method_size |-> MethodDecoder_finish_decoding(s.method).item,
                                  request_target_size |->
                                      RequestTargetDecoder_finish_decoding(s.target).item,
                                  http_version |-> r.st.item])))))

RequestLineDecoder_decode(s, buf, eos) == RequestLineDecoder_run(s, buf, 0, eos)

-----------------------------------------------------------------------------
(* Header block decoder (header.rs)                                        *)

Range(start, end) == [start |-> start, end |-> end]

HeaderFieldNameDecoder_new == [end |-> 0, idle |-> FALSE]

HeaderFieldNameDecoder_decode(s, buf, eos) ==
    Bind(Position(buf, not_tchar), LAMBDA n :
        IF s.idle THEN Ret(s, 0, "ok")
        ELSE IF n >= 0
             THEN IF buf[n + 1] # COLON THEN Ret(s, 0, "InvalidInput")
                  ELSE Ret([end |-> s.end + n, idle |-> TRUE], n + 1, "ok")
        ELSE IF eos THEN Ret(s, 0, "UnexpectedEos")
        ELSE Ret([s EXCEPT !.end = s.end + Len(buf)], Len(buf), "ok"))

HeaderFieldNameDecoder_finish_decoding(s) ==
    IF ~s.idle THEN [st |-> s, item |-> Range(0, 0), err |-> "IncompleteDecoding"]
    ELSE [st |-> HeaderFieldNameDecoder_new, item |-> Range(0, s.end), err |-> "ok"]

HeaderFieldValueDecoder_new ==
    [start |-> 0, size |-> 0, trailing_whitespaces |-> 0, remaining |-> Unknown]

HeaderFieldValueDecoder_is_idle(s) == s.remaining = Finite(0)

\* The for loop of HeaderFieldValueDecoder::decode; i is the number of bytes
\* of buf the loop has taken so far.
RECURSIVE HeaderFieldValueDecoder_loop(_, _, _, _)
HeaderFieldValueDecoder_loop(s, buf, i, eos) ==
    IF i >= Len(buf)
    THEN IF eos THEN Ret(s, i, "UnexpectedEos") ELSE Ret(s, i, "ok")
    ELSE
    Bind(buf[i + 1], LAMBDA b :
        IF is_whitespace(b)
        THEN HeaderFieldValueDecoder_loop(
                 [s EXCEPT !.trailing_whitespaces = @ + 1], buf, i + 1, eos)
        ELSE IF is_vchar(b)
        THEN HeaderFieldValueDecoder_loop(
                 [s EXCEPT !.size = @ + s.trailing_whitespaces + 1,
                           !.trailing_whitespaces = 0], buf, i + 1, eos)
        ELSE IF s.remaining = Finite(1)
        THEN IF b # LF THEN Ret(s, i + 1, "InvalidInput")
             ELSE Ret([s EXCEPT !.remaining = Finite(0)], i + 1, "ok")
        ELSE IF b # CR THEN Ret(s, i + 1, "InvalidInput")
             ELSE HeaderFieldValueDecoder_loop(
                      [s EXCEPT !.remaining = Finite(1)], buf, i + 1, eos))

HeaderFieldValueDecoder_decode(s, buf, eos) ==
    Bind(Position(buf, not_whitespace), LAMBDA p :
        Bind(IF s.size # 0 THEN 0 ELSE IF p >= 0 THEN p ELSE Len(buf), LAMBDA offset :
        IF HeaderFieldValueDecoder_is_idle(s) THEN Ret(s, 0, "ok")
        ELSE HeaderFieldValueDecoder_loop(
                 [s EXCEPT !.start = @ + offset], buf, offset, eos)))

\* A finish_decoding whose range runs on over the trailing whitespace.
HeaderFieldValueDecoder_finish_decoding_with_trailing(s) ==
    IF ~HeaderFieldValueDecoder_is_idle(s)
    THEN [st |-> s, item |-> Range(0, 0), err |-> "IncompleteDecoding"]
    ELSE [st |-> HeaderFieldValueDecoder_new,
          item |-> Range(s.start, s.start + s.size + s.trailing_whitespaces), err |-> "ok"]

HeaderFieldValueDecoder_finish_decoding(s) ==
    IF ~HeaderFieldValueDecoder_is_idle(s)
    THEN [st |-> s, item |-> Range(0, 0), err |-> "IncompleteDecoding"]
    ELSE [st |-> HeaderFieldValueDecoder_new,
          item |-> Range(s.start, s.start + s.size), err |-> "ok"]

HeaderFieldDecoder_new ==
    [peek |-> CopyableBytesDecoder_new(2),
     name |-> HeaderFieldNameDecoder_new,
     value |-> HeaderFieldValueDecoder_new]

\* An end-of-block test that looks at the first peeked byte only
HeaderFieldDecoder_is_crlf_reached_by_cr(s) == s.peek.bytes[1] = CR

HeaderFieldDecoder_is_crlf_reached(s) == s.peek.bytes = CRLF

\* TupleDecoder<(HeaderFieldNameDecoder, HeaderFieldValueDecoder)>::is_idle
HeaderFieldDecoder_is_idle(s) == s.name.idle /\ HeaderFieldValueDecoder_is_idle(s.value)

\* TupleDecoder<(HeaderFieldNameDecoder, HeaderFieldValueDecoder)>::decode:
\* the name decoder, then the value decoder on what the name decoder left.
HeaderFieldDecoder_inner_decode(s, buf, eos) ==
    Bind(HeaderFieldNameDecoder_decode(s.name, buf, eos), LAMBDA r1 :
        Bind([s EXCEPT !.name = r1.st], LAMBDA t1 :
        Bind(HeaderFieldValueDecoder_decode(s.value, Rest(buf, r1.n), eos), LAMBDA r2 :
        Bind([t1 EXCEPT !.value = r2.st], LAMBDA t2 :
        IF r1.err # "ok" THEN Ret(t1, r1.n, r1.err)
        ELSE IF ~r1.st.idle THEN Ret(t1, r1.n, "ok")
        ELSE Ret(t2, r1.n + r2.n, r2.err)))))

HeaderFieldDecoder_decode(s, buf, eos) ==
    Bind(     IF CopyableBytesDecoder_is_idle(s.peek) THEN Ret(s.peek, 0, "ok")
              ELSE CopyableBytesDecoder_decode(s.peek, buf, eos), LAMBDA rp :
        Bind([s EXCEPT !.peek = rp.st], LAMBDA t0 :
        \* the two peeked bytes are handed to the name/value decoders
        Bind(HeaderFieldDecoder_inner_decode(t0, rp.st.bytes, FALSE), LAMBDA ri :
        Bind(IF CopyableBytesDecoder_is_idle(s.peek) THEN s ELSE ri.st, LAMBDA t1 :
        Bind(HeaderFieldDecoder_inner_decode(t1, Rest(buf, rp.n), eos), LAMBDA r :
        IF HeaderFieldDecoder_is_crlf_reached(s) THEN Ret(s, 0, "ok")
        ELSE IF rp.err # "ok" THEN Ret(t0, rp.n, rp.err)
        ELSE IF ~CopyableBytesDecoder_is_idle(rp.st) THEN Ret(t0, rp.n, "ok")
        ELSE IF ~CopyableBytesDecoder_is_idle(s.peek) /\ HeaderFieldDecoder_is_crlf_reached(t0)
             THEN Ret(t0, rp.n, "ok")
        ELSE IF ~CopyableBytesDecoder_is_idle(s.peek) /\ ri.err # "ok"
             THEN Ret(ri.st, rp.n, ri.err)
        ELSE IF HeaderFieldDecoder_is_idle(t1) THEN Ret(t1, rp.n, "ok")
        ELSE Ret(r.st, rp.n + r.n, r.err))))))

HeaderFieldPosition(name, value) == [name |-> name, value |-> value]

HeaderFieldDecoder_finish_decoding(s) ==
    Bind(CopyableBytesDecoder_finish_decoding(s.peek), LAMBDA p :
        Bind(HeaderFieldNameDecoder_finish_decoding(s.name), LAMBDA n :
        Bind(HeaderFieldValueDecoder_finish_decoding(s.value), LAMBDA v :
        IF p.err # "ok" THEN [st |-> s, item |-> NoItem, err |-> p.err]
        ELSE IF n.err # "ok" THEN [st |-> [s EXCEPT !.peek = p.st], item |-> NoItem, err |-> n.err]
        ELSE IF v.err # "ok"
             THEN [st |-> [s EXCEPT !.peek = p.st, !.name = n.st], item |-> NoItem, err |-> v.err]
        ELSE [st |-> [peek |-> p.st, name |-> n.st, value |-> v.st],
              item |-> Some(HeaderFieldPosition(
                           n.item,
                           Range(v.item.start + n.item.end + 1, v.item.end + n.item.end + 1))),
              err |-> "ok"])))

\* A rebasing that moves the name range and leaves the value range behind.
add_offset_name_only(f, offset) ==
    HeaderFieldPosition(Range(f.name.start + offset, f.name.end + offset),
                        Range(f.value.start, f.value.end))

add_offset(f, offset) ==
    HeaderFieldPosition(Range(f.name.start + offset, f.name.end + offset),
                        Range(f.value.start + offset, f.value.end + offset))

HeaderDecoder_new ==
    [field_start |-> 0, field_end |-> 0, field_decoder |-> HeaderFieldDecoder_new,
     fields |-> <<>>]

HeaderDecoder_set_start_position(s, n) == [s EXCEPT !.field_start = n, !.field_end = n]

HeaderDecoder_is_idle(s) == HeaderFieldDecoder_is_crlf_reached(s.field_decoder)

\* The while loop of HeaderDecoder::decode.
RECURSIVE HeaderDecoder_loop(_, _, _, _)
HeaderDecoder_loop(s, buf, offset, eos) ==
    IF offset >= Len(buf)
    THEN IF eos THEN Ret(s, offset, "UnexpectedEos") ELSE Ret(s, offset, "ok")
    ELSE
    Bind(HeaderFieldDecoder_decode(s.field_decoder, Rest(buf, offset), eos), LAMBDA r :
        Bind([s EXCEPT !.field_decoder = r.st, !.field_end = @ + r.n], LAMBDA t1 :
        Bind(HeaderFieldDecoder_finish_decoding(r.st), LAMBDA f :
        Bind( IF HeaderFieldDecoder_is_idle(r.st)
              THEN [t1 EXCEPT !.field_decoder = f.st,
                              !.fields = Append(@, add_offset(f.item[1], t1.field_start)),
                              !.field_start = t1.field_end]
              ELSE t1, LAMBDA t2 :
        IF r.err # "ok" THEN Ret(t1, offset + r.n, r.err)
        ELSE IF HeaderFieldDecoder_is_idle(r.st) /\ f.err # "ok"
             THEN Ret(t1, offset + r.n, f.err)
        ELSE IF HeaderFieldDecoder_is_crlf_reached(t2.field_decoder)
             THEN Ret(t2, offset + r.n, "ok")
        ELSE IF r.n = 0 /\ ~HeaderFieldDecoder_is_idle(r.st)
             THEN Ret(t2, offset, "Diverges")
        ELSE HeaderDecoder_loop(t2, buf, offset + r.n, eos)))))

HeaderDecoder_decode(s, buf, eos) ==
    IF HeaderDecoder_is_idle(s) THEN Ret(s, 0, "ok")
    ELSE HeaderDecoder_loop(s, buf, 0, eos)

HeaderDecoder_finish_decoding(s) ==
    IF ~HeaderFieldDecoder_is_crlf_reached(s.field_decoder)
    THEN [st |-> s, item |-> NoItem, err |-> "IncompleteDecoding"]
    ELSE [st |-> HeaderDecoder_new, item |-> Some(s.fields), err |-> "ok"]

-----------------------------------------------------------------------------
(* Payload decoder and the combinators the body decoders wrap it in        *)

\* RemainingBytesDecoder: takes every byte it is given; its item is complete
\* when it is told that the stream has ended.
RemainingBytesDecoder_new == [buf |-> <<>>, idle |-> FALSE]

RemainingBytesDecoder_decode(s, buf, eos) ==
    IF s.idle THEN Ret(s, 0, "ok")
    ELSE Ret([buf |-> s.buf \o buf, idle |-> eos], Len(buf), "ok")

RemainingBytesDecoder_finish_decoding(s) ==
    IF ~s.idle THEN [st |-> s, item |-> NoItem, err |-> "IncompleteDecoding"]
    ELSE [st |-> RemainingBytesDecoder_new, item |-> Some(s.buf), err |-> "ok"]

\* Length<D> (inner.length(size)): the inner decoder sees exactly size bytes
\* and end-of-stream after the last of them.
Length_new(inner, size) == [inner |-> inner, expected_bytes |-> size, remaining_bytes |-> size]

\* A length decoder that hands the payload decoder everything it is offered.
Length_decode_unlimited(s, buf, eos) ==
    Bind(RemainingBytesDecoder_decode(s.inner, buf, Len(buf) >= s.remaining_bytes), LAMBDA r :
        Bind([s EXCEPT !.inner = r.st, !.remaining_bytes = 0], LAMBDA t :
        Bind(RemainingBytesDecoder_finish_decoding(r.st), LAMBDA f :
        IF eos /\ Len(buf) < s.remaining_bytes THEN RetI(s, 0, "UnexpectedEos", NoItem)
        ELSE IF ~r.st.idle
             THEN RetI([s EXCEPT !.inner = r.st, !.remaining_bytes = @ - r.n], r.n, "ok", NoItem)
        ELSE RetI([t EXCEPT !.inner = f.st, !.remaining_bytes = s.expected_bytes],
                  r.n, "ok", f.item))))

Length_decode(s, buf, eos) ==
    Bind(Min(Len(buf), s.remaining_bytes), LAMBDA limit :
        Bind(s.remaining_bytes - limit, LAMBDA required :
        Bind(RemainingBytesDecoder_decode(s.inner, Take(buf, limit), required = 0), LAMBDA r :
        Bind([s EXCEPT !.inner = r.st, !.remaining_bytes = @ - r.n], LAMBDA t :
        Bind(RemainingBytesDecoder_finish_decoding(r.st), LAMBDA f :
        IF eos /\ required > 0 THEN RetI(s, 0, "UnexpectedEos", NoItem)
        ELSE IF r.err # "ok" THEN RetI(t, r.n, r.err, NoItem)
        ELSE IF ~r.st.idle THEN RetI(t, r.n, "ok", NoItem)
        ELSE IF t.remaining_bytes # 0 THEN RetI(t, r.n, "Other", NoItem)
        ELSE RetI([t EXCEPT !.inner = f.st, !.remaining_bytes = s.expected_bytes],
                  r.n, "ok", f.item))))))

\* Slice<D> (inner.slice()): the inner decoder sees at most consumable_bytes.
Slice_new(inner) == [inner |-> inner, consumable_bytes |-> 0]

Slice_is_suspended(s) == s.consumable_bytes = 0

\* Dispatch over the payload decoder T of ChunkedBodyDecoder<T>:
\* RemainingBytesDecoder, or a decoder of a fixed number of bytes
\* (CopyableBytesDecoder), which is idle once it has them.
T_is_fixed(s) == "offset" \in DOMAIN s

T_is_idle(s) == IF T_is_fixed(s) THEN CopyableBytesDecoder_is_idle(s) ELSE s.idle

T_decode(s, buf, eos) ==
    IF T_is_fixed(s) THEN CopyableBytesDecoder_decode(s, buf, eos)
    ELSE RemainingBytesDecoder_decode(s, buf, eos)

T_finish_decoding(s) ==
    IF T_is_fixed(s)
    THEN Bind(CopyableBytesDecoder_finish_decoding(s), LAMBDA f :
             [st |-> f.st, item |-> IF f.err = "ok" THEN Some(f.item) ELSE NoItem, err |-> f.err])
    ELSE RemainingBytesDecoder_finish_decoding(s)

Slice_decode(s, buf, eos) ==
    Bind(Min(Len(buf), s.consumable_bytes), LAMBDA limit :
        Bind(T_decode(s.inner, Take(buf, limit), eos /\ limit = Len(buf)), LAMBDA r :
        Ret([inner |-> r.st, consumable_bytes |-> s.consumable_bytes - r.n], r.n, r.err)))

-----------------------------------------------------------------------------
(* Chunked body decoder (chunked_body.rs)                                  *)

\* size: u64 is kept as its sixteen hexadecimal digits, the most significant
\* first, so that arithmetic on it has the width it has in the code.
U64Digits == 16

U64_zero == [i \in 1..U64Digits |-> 0]

\* (x * 16) + n in u64: the top digit is shifted out (the arithmetic wraps
\* where overflow checks are off and panics where they are on).
U64_mul16_add(x, n) == Tail(x) \o <<n>>

RECURSIVE DigitsValue(_, _, _)
DigitsValue(x, i, acc) ==
    IF i > Len(x) THEN acc ELSE DigitsValue(x, i + 1, acc * 16 + x[i])

\* A u64 as a count of bytes: its value, or for a value of 16^7 or more a
\* count that no input of the model reaches.
U64_as_count(x) ==
    IF \A i \in 1..(U64Digits - 7) : x[i] = 0
    THEN DigitsValue(SubSeq(x, U64Digits - 6, U64Digits), 1, 0)
    ELSE 16^7

\* A count of the model as a u64; the digits above 16^7 are zero
U64_from_int(n) ==
    [i \in 1..U64Digits |-> IF i <= U64Digits - 8 THEN 0 ELSE (n \div 16^(U64Digits - i)) % 16]

\* A hexadecimal literal of the code, given by its digits
U64_of(d) == [i \in 1..(U64Digits - Len(d)) |-> 0] \o d

U64_le(a, b) ==
    \/ a = b
    \/ \E i \in 1..U64Digits : a[i] < b[i] /\ \A j \in 1..(i - 1) : a[j] = b[j]

\* a + k and a - k for a small k, the carry and the borrow taken from digit
\* i upwards; a - k is used where k <= a.
RECURSIVE U64_add_at(_, _, _)
U64_add_at(a, i, k) ==
    IF k = 0 \/ i = 0 THEN a
    ELSE U64_add_at([a EXCEPT ![i] = (a[i] + k) % 16], i - 1, (a[i] + k) \div 16)

RECURSIVE U64_sub_at(_, _, _)
U64_sub_at(a, i, k) ==
    IF k = 0 \/ i = 0 THEN a
    ELSE IF a[i] >= k THEN [a EXCEPT ![i] = a[i] - k]
    ELSE U64_sub_at([a EXCEPT ![i] = a[i] + 16 - k], i - 1, 1)

U64_add(a, k) == U64_add_at(a, U64Digits, k)
U64_sub(a, k) == U64_sub_at(a, U64Digits, k)

RECURSIVE StripZeros(_)
StripZeros(d) == IF d # <<>> /\ Head(d) = 0 THEN StripZeros(Tail(d)) ELSE d

ChunkSizeDecoder_new == [size |-> U64_zero, remaining |-> Unknown]

ChunkSizeDecoder_is_idle(s) == s.remaining = Finite(0)

IsHex(b) ==
    \/ is_digit(b)
    \/ (LOWER_A <= b /\ b <= LOWER_A + 5)
    \/ (UPPER_A <= b /\ b <= UPPER_A + 5)

\* A digit value that forgets the ten of the upper-case letters.
HexValue_upper_from_zero(b) ==
    IF is_digit(b) THEN b - DIGIT0
    ELSE IF LOWER_A <= b /\ b <= LOWER_A + 5 THEN b - LOWER_A + 10
    ELSE b - UPPER_A

HexValue(b) ==
    IF is_digit(b) THEN b - DIGIT0
    ELSE IF LOWER_A <= b /\ b <= LOWER_A + 5 THEN b - LOWER_A + 10
    ELSE b - UPPER_A + 10

\* The for loop of ChunkSizeDecoder::decode; i is the 0-based index of the
\* byte the loop looks at.
RECURSIVE ChunkSizeDecoder_loop(_, _, _, _)
ChunkSizeDecoder_loop(s, buf, i, eos) ==
    IF i >= Len(buf)
    THEN IF eos THEN Ret(s, Len(buf), "UnexpectedEos") ELSE Ret(s, Len(buf), "ok")
    ELSE
    Bind(buf[i + 1], LAMBDA b :
        IF s.remaining = Finite(1)
        THEN IF b # LF THEN Ret(s, i, "InvalidInput")
             ELSE Ret([s EXCEPT !.remaining = Finite(0)], i + 1, "ok")
        ELSE IF b = CR
        THEN ChunkSizeDecoder_loop([s EXCEPT !.remaining = Finite(1)], buf, i + 1, eos)
        ELSE IF ~IsHex(b) THEN Ret(s, i, "InvalidInput")
        ELSE ChunkSizeDecoder_loop(
                 [s EXCEPT !.size = U64_mul16_add(s.size, HexValue(b))], buf, i + 1, eos))

ChunkSizeDecoder_decode(s, buf, eos) ==
    IF ChunkSizeDecoder_is_idle(s) THEN Ret(s, 0, "ok")
    ELSE ChunkSizeDecoder_loop(s, buf, 0, eos)

ChunkSizeDecoder_finish_decoding(s) ==
    IF s.remaining # Finite(0) THEN [st |-> s, item |-> U64_zero, err |-> "IncompleteDecoding"]
    ELSE [st |-> ChunkSizeDecoder_new, item |-> s.size, err |-> "ok"]

ChunkedBodyDecoder_new(inner) ==
    [size |-> ChunkSizeDecoder_new, inner |-> Slice_new(inner), crlf |-> NoItem, eos |-> FALSE]

ChunkedBodyDecoder_into_inner(s) == s.inner.inner

ChunkedBodyDecoder_is_idle(s) ==
    s.eos /\ (IF s.crlf = NoItem THEN FALSE ELSE CrlfDecoder_is_idle(s.crlf[1]))

\* The while loop of ChunkedBodyDecoder::decode.  An iteration in which the
\* payload decoder consumes nothing and changes nothing leaves offset and
\* self as they were, and the loop repeats it for ever.
RECURSIVE ChunkedBodyDecoder_loop(_, _, _, _)
ChunkedBodyDecoder_loop(s, buf, offset, eos) ==
    IF offset >= Len(buf)
    THEN IF eos THEN Ret(s, offset, "UnexpectedEos") ELSE Ret(s, offset, "ok")
    ELSE IF Slice_is_suspended(s.inner)
    THEN
      Bind(     IF s.crlf = NoItem \/ CrlfDecoder_is_idle(s.crlf[1]) THEN Ret(NoItem, 0, "ok")
                ELSE Bind(CrlfDecoder_decode(s.crlf[1], Rest(buf, offset), eos), LAMBDA c :
                         Ret(Some(c.st), c.n, c.err)), LAMBDA rc :
          Bind( [s EXCEPT !.crlf = IF s.crlf = NoItem THEN NoItem ELSE
                                   IF rc.st = NoItem THEN s.crlf ELSE rc.st], LAMBDA t1 :
          Bind(offset + rc.n, LAMBDA o1 :
          Bind(ChunkSizeDecoder_decode(s.size, Rest(buf, o1), eos), LAMBDA rs :
          Bind([t1 EXCEPT !.crlf = NoItem, !.size = rs.st], LAMBDA t2 :
          Bind(o1 + rs.n, LAMBDA o2 :
          Bind(ChunkSizeDecoder_finish_decoding(rs.st), LAMBDA n :
          Bind( [t2 EXCEPT !.size = n.st,
                           !.eos = IF n.item = U64_zero THEN TRUE ELSE @,
                           !.inner.consumable_bytes = U64_as_count(n.item),
                           !.crlf = Some(CrlfDecoder_new)], LAMBDA t3 :
          Bind(Slice_decode(t3.inner, Rest(buf, o2), eos), LAMBDA ri :
          IF rc.err # "ok" THEN Ret(t1, o1, rc.err)
          ELSE IF t1.crlf # NoItem /\ ~CrlfDecoder_is_idle(t1.crlf[1]) THEN Ret(t1, o1, "ok")
          ELSE IF t1.crlf # NoItem /\ s.eos THEN Ret(t1, o1, "ok")
          ELSE IF rs.err # "ok" THEN Ret(t2, o2, rs.err)
          ELSE IF ~ChunkSizeDecoder_is_idle(rs.st) THEN Ret(t2, o2, "ok")
          ELSE IF Slice_is_suspended(t3.inner) THEN ChunkedBodyDecoder_loop(t3, buf, o2, eos)
          ELSE IF ri.err # "ok" THEN Ret([t3 EXCEPT !.inner = ri.st], o2 + ri.n, ri.err)
          ELSE ChunkedBodyDecoder_loop([t3 EXCEPT !.inner = ri.st], buf, o2 + ri.n, eos))))))))))
    ELSE
      Bind(Slice_decode(s.inner, Rest(buf, offset), eos), LAMBDA ri :
          IF ri.err # "ok" THEN Ret([s EXCEPT !.inner = ri.st], offset + ri.n, ri.err)
          ELSE IF ri.n = 0 /\ ri.st = s.inner THEN Ret(s, offset, "Diverges")
          ELSE ChunkedBodyDecoder_loop([s EXCEPT !.inner = ri.st], buf, offset + ri.n, eos))

ChunkedBodyDecoder_decode(s, buf, eos) ==
    IF ChunkedBodyDecoder_is_idle(s) THEN Ret(s, 0, "ok")
    ELSE ChunkedBodyDecoder_loop(s, buf, 0, eos)

ChunkedBodyDecoder_finish_decoding(s) ==
    Bind(    IF T_is_idle(s.inner.inner) THEN Ret(s.inner, 0, "ok")
             ELSE Slice_decode(s.inner, <<>>, TRUE), LAMBDA r :
        Bind(T_finish_decoding(r.st.inner), LAMBDA f :
        Bind([s EXCEPT !.inner.inner = f.st], LAMBDA t :
        IF r.err # "ok" THEN [st |-> s, item |-> NoItem, err |-> r.err]
        ELSE IF ~T_is_idle(r.st.inner) THEN [st |-> s, item |-> NoItem, err |-> "UnexpectedEos"]
        ELSE IF f.err # "ok" THEN [st |-> s, item |-> NoItem, err |-> f.err]
        ELSE IF ~Slice_is_suspended(t.inner) THEN [st |-> t, item |-> NoItem, err |-> "Other"]
        ELSE [st |-> [t EXCEPT !.eos = FALSE, !.crlf = NoItem], item |-> f.item, err |-> "ok"])))

-----------------------------------------------------------------------------
(* Header view and body decoder dispatch (header.rs, body.rs)              *)

\* "content-length", "transfer-encoding", "chunked"
ContentLengthLower == <<99, 111, 110, 116, 101, 110, 116, 45, 108, 101, 110, 103, 116, 104>>
TransferEncodingLower ==
    <<116, 114, 97, 110, 115, 102, 101, 114, 45, 101, 110, 99, 111, 100, 105, 110, 103>>
Chunked == <<99, 104, 117, 110, 107, 101, 100>>

\* HeaderFields::field: the name and value a position selects in the buffer
HeaderFields_field(buf, f) ==
    [name |-> SubSeq(buf, f.name.start + 1, f.name.end),
     value |-> SubSeq(buf, f.value.start + 1, f.value.end)]

\* Header::fields, collected
Header_fields(buf, fields) == [i \in 1..Len(fields) |-> HeaderFields_field(buf, fields[i])]

\* A lookup that compares the names byte for byte.
RECURSIVE Header_get_field_exact(_, _, _)
Header_get_field_exact(buf, fields, name) ==
    IF fields = <<>> THEN NoItem
    ELSE IF HeaderFields_field(buf, Head(fields)).name = name
         THEN Some(HeaderFields_field(buf, Head(fields)).value)
    ELSE Header_get_field_exact(buf, Tail(fields), name)

\* Header::get_field: self.fields().find(|f| f.name().eq_ignore_ascii_case(name))
\*                        .map(|f| f.value())
RECURSIVE Header_get_field(_, _, _)
Header_get_field(buf, fields, name) ==
    IF fields = <<>> THEN NoItem
    ELSE IF eq_ignore_ascii_case(HeaderFields_field(buf, Head(fields)).name, name)
         THEN Some(HeaderFields_field(buf, Head(fields)).value)
    ELSE Header_get_field(buf, Tail(fields), name)

RECURSIVE DecimalValue(_, _, _)
DecimalValue(digits, i, acc) ==
    IF i > Len(digits) THEN acc
    ELSE DecimalValue(digits, i + 1, acc * 10 + (digits[i] - DIGIT0))

\* str::parse::<u64>: an optional '+' and at least one decimal digit; -1
\* stands for Err.
ParseU64(v) ==
    Bind(IF Len(v) > 0 /\ v[1] = PLUS THEN Rest(v, 1) ELSE v, LAMBDA digits :
        IF Len(digits) = 0 \/ ~All(digits, is_digit) THEN -1
        ELSE DecimalValue(digits, 1, 0))

BodyDecoder_new == [kind |-> "WithoutLength", d |-> RemainingBytesDecoder_new]

\* BodyDecoderInner::update_inner takes the payload decoder out of the
\* current variant, leaving None behind until the closure succeeds.
BodyDecoderInner_into_inner(s) ==
    CASE s.kind = "Chunked" -> ChunkedBodyDecoder_into_inner(s.d)
      [] s.kind = "WithLength" -> s.d.inner
      [] OTHER -> s.d

\* A selection that compares the field names byte for byte.
RECURSIVE BodyDecoderInner_select_case_sensitive(_, _, _)
BodyDecoderInner_select_case_sensitive(inner, fields, i) ==
    IF i > Len(fields)
    THEN [st |-> [kind |-> "WithoutLength", d |-> inner], err |-> "ok"]
    ELSE IF fields[i].name = ContentLengthLower
    THEN IF ParseU64(fields[i].value) < 0
         THEN [st |-> [kind |-> "None", d |-> inner], err |-> "InvalidInput"]
         ELSE [st |-> [kind |-> "WithLength",
                       d |-> Length_new(inner, ParseU64(fields[i].value))],
               err |-> "ok"]
    ELSE IF fields[i].name = TransferEncodingLower
    THEN IF fields[i].value # Chunked
         THEN [st |-> [kind |-> "None", d |-> inner], err |-> "Other"]
         ELSE [st |-> [kind |-> "Chunked", d |-> ChunkedBodyDecoder_new(inner)],
               err |-> "ok"]
    ELSE BodyDecoderInner_select_case_sensitive(inner, fields, i + 1)

\* The for loop of BodyDecoderInner::initialize over header.fields()
RECURSIVE BodyDecoderInner_select(_, _, _)
BodyDecoderInner_select(inner, fields, i) ==
    IF i > Len(fields)
    THEN [st |-> [kind |-> "WithoutLength", d |-> inner], err |-> "ok"]
    ELSE IF eq_ignore_ascii_case(fields[i].name, ContentLengthLower)
    THEN IF ParseU64(fields[i].value) < 0
         THEN [st |-> [kind |-> "None", d |-> inner], err |-> "InvalidInput"]
         ELSE [st |-> [kind |-> "WithLength",
                       d |-> Length_new(inner, ParseU64(fields[i].value))],
               err |-> "ok"]
    ELSE IF eq_ignore_ascii_case(fields[i].name, TransferEncodingLower)
    THEN IF fields[i].value # Chunked
         THEN [st |-> [kind |-> "None", d |-> inner], err |-> "Other"]
         ELSE [st |-> [kind |-> "Chunked", d |-> ChunkedBodyDecoder_new(inner)],
               err |-> "ok"]
    ELSE BodyDecoderInner_select(inner, fields, i + 1)

BodyDecoder_initialize(s, fields) ==
    IF s.kind = "None" THEN [st |-> s, err |-> "ok"]
    ELSE BodyDecoderInner_select(BodyDecoderInner_into_inner(s), fields, 1)

\* BodyDecoderInner::decode as the message decoders use it: the consumed
\* count together with the payload once the selected decoder has all of it.
BodyDecoder_decode(s, buf, eos) ==
    CASE s.kind = "Chunked" ->
            Bind(ChunkedBodyDecoder_decode(s.d, buf, eos), LAMBDA r :
                Bind(ChunkedBodyDecoder_finish_decoding(r.st), LAMBDA f :
                IF r.err # "ok" THEN RetI([s EXCEPT !.d = r.st], r.n, r.err, NoItem)
                ELSE IF ~ChunkedBodyDecoder_is_idle(r.st)
                     THEN RetI([s EXCEPT !.d = r.st], r.n, "ok", NoItem)
                ELSE RetI([s EXCEPT !.d = f.st], r.n, f.err, f.item)))
      [] s.kind = "WithLength" ->
            Bind(Length_decode(s.d, buf, eos), LAMBDA r :
                RetI([s EXCEPT !.d = r.st], r.n, r.err, r.item))
      [] s.kind = "WithoutLength" ->
            Bind(RemainingBytesDecoder_decode(s.d, buf, eos), LAMBDA r :
                Bind(RemainingBytesDecoder_finish_decoding(r.st), LAMBDA f :
                IF ~r.st.idle THEN RetI([s EXCEPT !.d = r.st], r.n, "ok", NoItem)
                ELSE RetI([s EXCEPT !.d = f.st], r.n, "ok", f.item)))
      [] OTHER -> RetI(s, 0, "DecoderTerminated", NoItem)

-----------------------------------------------------------------------------
(* Message decoders (message.rs, request.rs)                               *)

DecodeOptions(max_start_line_size, max_header_size) ==
    [max_start_line_size |-> max_start_line_size, max_header_size |-> max_header_size]

\* x.max_bytes(n).buffered(): the byte counter of MaxBytes and the item
\* Buffered keeps until take_item.
Buffered_new(d) == [d |-> d, consumed_bytes |-> 0, item |-> NoItem]

\* A limiter that never fails.
MaxBytes_decode_unlimited(b, r, max_bytes) == r.err

\* MaxBytes::decode after the inner decode returned r: the call fails once
\* more than max_bytes have been consumed for the current item.
MaxBytes_decode(b, r, max_bytes) ==
    IF r.err # "ok" THEN r.err
    ELSE IF b.consumed_bytes + r.n > max_bytes THEN "InvalidInput"
    ELSE "ok"

MessageDecoder_new(start_line, body, options) ==
    [buf |-> <<>>,
     start_line |-> Buffered_new(start_line),
     header |-> Buffered_new(HeaderDecoder_new),
     body |-> body,
     options |-> options]

\* The header and body phases shared by the two decode methods: s is the
\* decoder after the start-line phase, offset what that phase consumed.
DecodeHeaderAndBody(s, buf, offset0, eos) ==
    Bind(HeaderDecoder_decode(s.header.d, Rest(buf, offset0), eos), LAMBDA rh :
        Bind(MaxBytes_decode(s.header, rh, s.options.max_header_size), LAMBDA eh :
        Bind(HeaderDecoder_finish_decoding(rh.st), LAMBDA fh :
        Bind(IF s.header.item # NoItem THEN offset0 ELSE offset0 + rh.n, LAMBDA offset1 :
        Bind( IF s.header.item # NoItem THEN s
              ELSE IF HeaderDecoder_is_idle(rh.st)
                   THEN [s EXCEPT !.header = [d |-> fh.st, consumed_bytes |-> 0,
                                               item |-> fh.item],
                                  !.buf = @ \o Take(buf, offset1)]
              ELSE [s EXCEPT !.header.d = rh.st,
                             !.header.consumed_bytes = @ + rh.n,
                             !.buf = @ \o Take(buf, offset1)], LAMBDA s1 :
        Bind(BodyDecoder_initialize(s1.body, Header_fields(s1.buf, s1.header.item[1])), LAMBDA init :
        Bind(IF s.header.item # NoItem THEN s ELSE [s1 EXCEPT !.body = init.st], LAMBDA s2 :
        Bind(BodyDecoder_decode(s2.body, Rest(buf, offset1), eos), LAMBDA rb :
        Bind([s2 EXCEPT !.body = rb.st], LAMBDA s3 :
        IF s.header.item = NoItem /\ eh # "ok"
        THEN RetI([s EXCEPT !.header.d = rh.st], offset1, eh, NoItem)
        ELSE IF s1.header.item = NoItem THEN RetI(s1, offset1, "ok", NoItem)
        ELSE IF s.header.item = NoItem /\ init.err # "ok"
             THEN RetI(s2, offset1, init.err, NoItem)
        ELSE IF rb.err # "ok" THEN RetI(s3, offset1 + rb.n, rb.err, NoItem)
        ELSE IF rb.item = NoItem THEN RetI(s3, offset1 + rb.n, "ok", NoItem)
        ELSE RetI([s3 EXCEPT !.buf = <<>>, !.start_line.item = NoItem,
                             !.header.item = NoItem],
                  offset1 + rb.n, "ok",
                  Some([buf |-> s3.buf,
                        start_line |-> s3.start_line.item[1],
                        header |-> s3.header.item[1],
                        body |-> rb.item[1]])))))))))))

MessageDecoder_decode(s, buf, eos) ==
    Bind(StatusLineDecoder_decode(s.start_line.d, buf, eos), LAMBDA r :
        Bind(MaxBytes_decode(s.start_line, r, s.options.max_start_line_size), LAMBDA e :
        Bind(r.n, LAMBDA offset :
        IF s.start_line.item # NoItem THEN DecodeHeaderAndBody(s, buf, 0, eos)
        ELSE IF e # "ok" THEN RetI([s EXCEPT !.start_line.d = r.st], offset, e, NoItem)
        ELSE IF r.item = NoItem
             THEN RetI([s EXCEPT !.start_line.d = r.st,
                                 !.start_line.consumed_bytes = @ + r.n,
                                 !.buf = @ \o Take(buf, offset)],
                       offset, "ok", NoItem)
        ELSE DecodeHeaderAndBody(
                 [s EXCEPT !.start_line = [d |-> r.st, consumed_bytes |-> 0, item |-> r.item],
                           !.header.d = HeaderDecoder_set_start_position(@, Len(s.buf) + offset)],
                 buf, offset, eos))))

RequestDecoder_with_options(body_decoder, options) ==
    MessageDecoder_new(RequestLineDecoder_new, body_decoder, options)

RequestDecoder_decode(s, buf, eos) ==
    Bind(RequestLineDecoder_decode(s.start_line.d, buf, eos), LAMBDA r :
        Bind(MaxBytes_decode(s.start_line, r, s.options.max_start_line_size), LAMBDA e :
        Bind(r.n, LAMBDA offset :
        IF s.start_line.item # NoItem THEN DecodeHeaderAndBody(s, buf, 0, eos)
        ELSE IF e # "ok" THEN RetI([s EXCEPT !.start_line.d = r.st], offset, e, NoItem)
        ELSE IF r.item = NoItem
             THEN RetI([s EXCEPT !.start_line.d = r.st,
                                 !.start_line.consumed_bytes = @ + r.n,
                                 !.buf = @ \o Take(buf, offset)],
                       offset, "ok", NoItem)
        ELSE DecodeHeaderAndBody(
                 [s EXCEPT !.start_line = [d |-> r.st, consumed_bytes |-> 0, item |-> r.item],
                           !.header.d = HeaderDecoder_set_start_position(@, Len(s.buf))],
                 buf, offset, eos))))

-----------------------------------------------------------------------------
(* Messages under construction (request.rs, response.rs, header.rs)        *)

Request_new(method, target, version, body) ==
    [buf |-> method \o <<SP>> \o target \o <<SP>> \o HttpVersion_as_str(version) \o CRLF,
     start_line |-> [method_size |-> Len(method),
                     request_target_size |-> Len(target),
                     http_version |-> version],
     header |-> <<>>,
     body |-> body]

Response_new(version, status, reason, body) ==
    [buf |-> HttpVersion_as_str(version) \o <<SP>> \o StatusCode_as_bytes(status)
             \o <<SP>> \o reason \o CRLF,
     start_line |-> [http_version |-> version,
                     status_code |-> status,
                     reason_phrase_size |-> Len(reason)],
     header |-> <<>>,
     body |-> body]

\* HeaderMut::add_field on the buffer and positions of message m
HeaderMut_add_field(m, name, value) ==
    Bind(Len(m.buf), LAMBDA start :
        Bind(start + Len(name) + 2, LAMBDA vstart :
        [m EXCEPT !.buf = @ \o name \o <<COLON, SP>> \o value \o CRLF,
                  !.header = Append(@, HeaderFieldPosition(
                                 Range(start, start + Len(name)),
                                 Range(vstart, vstart + Len(value))))]))

\* HeaderField::new: Ok exactly for a tchar name and a vchar value
HeaderField_new(name, value) == All(name, is_tchar) /\ All(value, is_vchar)

\* Request::method, Request::request_target, Response::reason_phrase: slices
\* of the raw buffer selected by the sizes kept in the start line.
Request_method(m) == Take(m.buf, m.start_line.method_size)

Request_request_target(m) ==
    SubSeq(m.buf, m.start_line.method_size + 2,
           m.start_line.method_size + 1 + m.start_line.request_target_size)

Response_reason_phrase(m) == SubSeq(m.buf, 8 + 1 + 3 + 1 + 1,
                                    8 + 1 + 3 + 1 + m.start_line.reason_phrase_size)

-----------------------------------------------------------------------------
(* Output buffers and the payload encoders                                 *)

\* A buffer position no encoder has stored into.
Untouched == -1

Blank(L) == [i \in 1..L |-> Untouched]

\* The buffer base after the sub-slice base[off..] was written as w.
Overlay(base, off, w) ==
    [i \in 1..Len(base) |->
        IF i > off /\ i <= off + Len(w) /\ w[i - off] # Untouched
        THEN w[i - off] ELSE base[i]]

\* The value every encode operator returns: state, returned count, the
\* buffer afterwards and the error kind.
EncRet(st, n, buf, e) == [st |-> st, n |-> n, buf |-> buf, err |-> e]

\* BytesEncoder<B>: the fixed-length payload encoder (and the encoder of the
\* bytes before the body).  BytesEncoder::new() holds nothing.
BytesEncoder_new == [type |-> "Bytes", bytes |-> <<>>, offset |-> 0]

BytesEncoder_is_idle(s) == s.offset = Len(s.bytes)

BytesEncoder_start_encoding(s, bytes) ==
    IF ~BytesEncoder_is_idle(s) THEN [st |-> s, err |-> "EncoderFull"]
    ELSE [st |-> [s EXCEPT !.bytes = bytes, !.offset = 0], err |-> "ok"]

BytesEncoder_encode(s, L) ==
    Bind(Min(L, Len(s.bytes) - s.offset), LAMBDA size :
        EncRet([s EXCEPT !.offset = @ + size], size,
               [i \in 1..L |-> IF i <= size THEN s.bytes[s.offset + i] ELSE Untouched],
               "ok"))

\* U8Encoder::new().repeat(): a payload encoder of unknown length, fed an
\* iterator of bytes.  It is not idle until an encode call has drawn the
\* last byte of the iterator, so one started on no bytes needs a call too.
Repeat_new == [type |-> "Repeat", items |-> NoItem]

Repeat_is_idle(s) == s.items = NoItem

Repeat_start_encoding(s, bytes) ==
    IF ~Repeat_is_idle(s) THEN [st |-> s, err |-> "EncoderFull"]
    ELSE [st |-> [s EXCEPT !.items = Some(bytes)], err |-> "ok"]

Repeat_encode(s, L) ==
    Bind(s.items[1], LAMBDA rest :
        Bind(Min(L, Len(rest)), LAMBDA size :
        IF Repeat_is_idle(s) THEN EncRet(s, 0, Blank(L), "ok")
        ELSE EncRet([s EXCEPT !.items = IF Len(rest) <= L THEN NoItem
                                        ELSE Some(Rest(rest, size))],
                    size,
                    [i \in 1..L |-> IF i <= size THEN rest[i] ELSE Untouched],
                    "ok")))

\* A payload encoder of the caller's that never ends: once started it fills
\* every buffer with its byte and reports ByteCount::Infinite.
Endless_new == [type |-> "Endless", byte |-> NoItem]

Endless_start_encoding(s, bytes) ==
    IF s.byte # NoItem THEN [st |-> s, err |-> "EncoderFull"]
    ELSE [st |-> [s EXCEPT !.byte = Some(IF bytes = <<>> THEN 0 ELSE bytes[1])], err |-> "ok"]

Endless_encode(s, L) ==
    IF s.byte = NoItem THEN EncRet(s, 0, Blank(L), "ok")
    ELSE EncRet(s, L, [i \in 1..L |-> s.byte[1]], "ok")

\* A payload encoder of the caller's that writes only the bytes it has been
\* granted from outside (data that arrives while the message is sent): with
\* nothing granted an encode call writes nothing and the encoder stays as
\* it is, not idle.
Gated_new == [type |-> "Gated", bytes |-> <<>>, offset |-> 0, granted |-> 0]

Gated_is_idle(s) == s.offset = Len(s.bytes)

Gated_start_encoding(s, bytes) ==
    IF ~Gated_is_idle(s) THEN [st |-> s, err |-> "EncoderFull"]
    ELSE [st |-> [s EXCEPT !.bytes = bytes, !.offset = 0], err |-> "ok"]

Gated_encode(s, L) ==
    Bind(Min(Min(L, Len(s.bytes) - s.offset), s.granted), LAMBDA size :
        EncRet([s EXCEPT !.offset = @ + size, !.granted = @ - size], size,
               [i \in 1..L |-> IF i <= size THEN s.bytes[s.offset + i] ELSE Untouched],
               "ok"))

\* Dispatch over the payload encoder E of BodyEncoder<E>
E_is_idle(s) ==
    CASE s.type = "Bytes" -> BytesEncoder_is_idle(s)
      [] s.type = "Gated" -> Gated_is_idle(s)
      [] s.type = "Repeat" -> Repeat_is_idle(s)
      [] s.type = "Endless" -> s.byte = NoItem

E_start_encoding(s, bytes) ==
    CASE s.type = "Bytes" -> BytesEncoder_start_encoding(s, bytes)
      [] s.type = "Repeat" -> Repeat_start_encoding(s, bytes)
      [] s.type = "Gated" -> Gated_start_encoding(s, bytes)
      [] s.type = "Endless" -> Endless_start_encoding(s, bytes)

E_encode(s, L) ==
    CASE s.type = "Bytes" -> BytesEncoder_encode(s, L)
      [] s.type = "Repeat" -> Repeat_encode(s, L)
      [] s.type = "Gated" -> Gated_encode(s, L)
      [] s.type = "Endless" -> Endless_encode(s, L)

E_requiring_bytes(s) ==
    CASE s.type = "Bytes" -> Finite(Len(s.bytes) - s.offset)
      [] s.type = "Repeat" -> IF Repeat_is_idle(s) THEN Finite(0) ELSE Unknown
      [] s.type = "Gated" -> IF Gated_is_idle(s) THEN Finite(0) ELSE Unknown
      [] s.type = "Endless" -> IF s.byte = NoItem THEN Finite(0) ELSE Infinite

-----------------------------------------------------------------------------
(* Chunked body encoder (chunked_body.rs)                                  *)

\* A closing sequence without the final empty line: "\r\n0\r\n"
LastChunkWithoutEmptyLine == <<CR, LF, DIGIT0, CR, LF>>

\* "\r\n0\r\n\r\n"
LastChunk == <<CR, LF, DIGIT0, CR, LF, CR, LF>>

\* "Transfer-Encoding", "Content-Length"
TransferEncoding ==
    <<84, 114, 97, 110, 115, 102, 101, 114, 45, 69, 110, 99, 111, 100, 105, 110, 103>>
ContentLength == <<67, 111, 110, 116, 101, 110, 116, 45, 76, 101, 110, 103, 116, 104>>

HexDigit(d) == IF d < 10 THEN DIGIT0 + d ELSE LOWER_A + (d - 10)

\* format!("{:x}", n) of a usize n: its significant digits in lower case,
\* "0" for zero
U64_hex(n) ==
    IF n = U64_zero THEN <<DIGIT0>>
    ELSE Bind(StripZeros(n), LAMBDA d : [i \in 1..Len(d) |-> HexDigit(d[i])])

\* format!("{:1$x}", n, width): lower-case hex, padded to width with spaces
SpacePaddedHex(n, width) ==
    Bind(U64_hex(n), LAMBDA digits :
        [i \in 1..(width - Len(digits)) |-> SP] \o digits)

\* format!("{:01$x}", n, width): lower-case hex, zero-padded to at least
\* width; a number of more digits is written in full
ZeroPaddedHex(n, width) ==
    Bind(U64_hex(n), LAMBDA digits :
        [i \in 1..(width - Len(digits)) |-> DIGIT0] \o digits)

RECURSIVE to_string(_)
to_string(n) == IF n < 10 THEN <<DIGIT0 + n>> ELSE Append(to_string(n \div 10), DIGIT0 + (n % 10))

ChunkedBodyEncoder_new(inner) ==
    [inner |-> inner, delim |-> BytesEncoder_new, last |-> BytesEncoder_new]

ChunkedBodyEncoder_is_idle(s) ==
    E_is_idle(s.inner) /\ BytesEncoder_is_idle(s.delim) /\ BytesEncoder_is_idle(s.last)

\* A test that takes no payload encoder for suspended
ChunkedBodyEncoder_is_suspended_never(size, inner) == FALSE

\* The payload encoder wrote nothing and has more to write
ChunkedBodyEncoder_is_suspended(size, inner) == size = 0 /\ ~E_is_idle(inner)

\* A width table that always reserves one hex digit
ChunkedBodyEncoder_offset_one_digit(len) == 3

\* 0xF, 0xFF, ...: k digits F
AllF(k) == U64_of([i \in 1..k |-> 15])

\* The width reserved for the chunk-size line, chosen from the buffer length
\* (a usize)
ChunkedBodyEncoder_offset(len) ==
    IF U64_le(len, U64_add(AllF(1), 3)) THEN 3
    ELSE IF U64_le(len, U64_add(AllF(2), 4)) THEN 4
    ELSE IF U64_le(len, U64_add(AllF(3), 5)) THEN 5
    ELSE IF U64_le(len, U64_add(AllF(4), 6)) THEN 6
    ELSE IF U64_le(len, U64_add(AllF(5), 7)) THEN 7
    ELSE IF U64_le(len, U64_add(AllF(6), 8)) THEN 8
    ELSE IF U64_le(len, U64_add(AllF(7), 9)) THEN 9
    ELSE 10

\* ChunkedBodyEncoder::encode on a buffer of length L.  write! stores the
\* size line at the front of the buffer and advances the slice past it, so
\* the recursive call sees the buffer after the size line and the data.
RECURSIVE ChunkedBodyEncoder_encode(_, _)
ChunkedBodyEncoder_encode(s, L) ==
    IF ~BytesEncoder_is_idle(s.last)
    THEN Bind(BytesEncoder_encode(s.last, L), LAMBDA r :
             EncRet([s EXCEPT !.last = r.st], r.n, r.buf, r.err))
    ELSE IF ~BytesEncoder_is_idle(s.delim)
    THEN Bind(BytesEncoder_encode(s.delim, L), LAMBDA r :
             Bind([s EXCEPT !.delim = r.st], LAMBDA t :
             Bind(ChunkedBodyEncoder_encode(t, L - r.n), LAMBDA rec :
             IF BytesEncoder_is_idle(r.st) /\ ~E_is_idle(s.inner)
             THEN EncRet(rec.st, r.n + rec.n, Overlay(r.buf, r.n, rec.buf), rec.err)
             ELSE EncRet(t, r.n, r.buf, "ok"))))
    ELSE IF E_is_idle(s.inner) THEN EncRet(s, 0, Blank(L), "ok")
    ELSE IF L < 4 THEN EncRet(s, L, [i \in 1..L |-> DIGIT0], "ok")
    ELSE
    Bind(ChunkedBodyEncoder_offset(U64_from_int(L)), LAMBDA offset :
        Bind(E_encode(s.inner, L - offset), LAMBDA ri :
        Bind(ri.n, LAMBDA size :
        Bind(Overlay(Blank(L), offset, ri.buf), LAMBDA data :
        Bind(ZeroPaddedHex(U64_from_int(size), offset - 2) \o CRLF, LAMBDA line :
        Bind(IF E_is_idle(ri.st) /\ size # 0
             THEN [s EXCEPT !.inner = ri.st,
                            !.last = BytesEncoder_start_encoding(@, LastChunk).st]
             ELSE [s EXCEPT !.inner = ri.st,
                            !.delim = BytesEncoder_start_encoding(@, CRLF).st], LAMBDA t :
        Bind(ChunkedBodyEncoder_encode(t, L - Len(line) - size), LAMBDA rec :
        IF ri.err # "ok" THEN EncRet([s EXCEPT !.inner = ri.st], 0, data, ri.err)
        ELSE IF ChunkedBodyEncoder_is_suspended(size, ri.st)
        THEN EncRet([s EXCEPT !.inner = ri.st], 0, data, "ok")
        ELSE IF Len(line) > L
        THEN EncRet([s EXCEPT !.inner = ri.st], 0, Overlay(data, 0, Take(line, L)), "Other")
        ELSE IF Len(line) + size > L
        THEN EncRet(t, 0, Overlay(data, 0, line), "Panic")
        ELSE EncRet(rec.st, offset + rec.n + size,
                    Overlay(Overlay(data, 0, line), Len(line) + size, rec.buf), rec.err))))))))

ChunkedBodyEncoder_start_encoding(s, bytes) ==
    Bind(E_start_encoding(s.inner, bytes), LAMBDA r :
        IF ~ChunkedBodyEncoder_is_idle(s) THEN [st |-> s, err |-> "EncoderFull"]
        ELSE [st |-> [s EXCEPT !.inner = r.st], err |-> r.err])

ChunkedBodyEncoder_update_header(m) == HeaderMut_add_field(m, TransferEncoding, Chunked)

-----------------------------------------------------------------------------
(* Body encoder (body.rs)                                                  *)

BodyEncoder_new(inner) == [kind |-> "NotStarted", e |-> inner]

BodyEncoder_is_idle(s) ==
    CASE s.kind = "WithLength" -> E_is_idle(s.e)
      [] s.kind = "Chunked" -> ChunkedBodyEncoder_is_idle(s.e)
      [] OTHER -> TRUE

\* A start_encoding that takes every payload encoder without a finite
\* length for a chunked one.
BodyEncoder_start_encoding_unchecked(s, bytes) ==
    Bind(E_start_encoding(s.e, bytes), LAMBDA r :
        IF s.kind # "NotStarted" THEN [st |-> [s EXCEPT !.kind = "None"], err |-> "EncoderFull"]
        ELSE IF r.err # "ok" THEN [st |-> [s EXCEPT !.kind = "None"], err |-> r.err]
        ELSE IF E_requiring_bytes(r.st) \in {Unknown, Infinite}
             THEN [st |-> [kind |-> "Chunked", e |-> ChunkedBodyEncoder_new(r.st)], err |-> "ok"]
        ELSE [st |-> [kind |-> "WithLength", e |-> r.st], err |-> "ok"])

\* BodyEncoderInner::start_encoding: mem::replace leaves None behind when
\* the encoder was started before or the payload encoder refuses the item.
BodyEncoder_start_encoding(s, bytes) ==
    Bind(E_start_encoding(s.e, bytes), LAMBDA r :
        IF s.kind # "NotStarted" THEN [st |-> [s EXCEPT !.kind = "None"], err |-> "EncoderFull"]
        ELSE IF r.err # "ok" THEN [st |-> [s EXCEPT !.kind = "None"], err |-> r.err]
        ELSE IF E_requiring_bytes(r.st) = Infinite
             THEN [st |-> [kind |-> "None", e |-> r.st], err |-> "Other"]
        ELSE IF E_requiring_bytes(r.st) = Unknown
             THEN [st |-> [kind |-> "Chunked", e |-> ChunkedBodyEncoder_new(r.st)], err |-> "ok"]
        ELSE [st |-> [kind |-> "WithLength", e |-> r.st], err |-> "ok"])

\* An update_header that also serves an encoder that was never started.
BodyEncoder_update_header_unstarted(s, m) ==
    CASE s.kind \in {"WithLength", "NotStarted"} ->
            [m |-> HeaderMut_add_field(m, ContentLength, to_string(E_requiring_bytes(s.e)[2])),
             err |-> "ok"]
      [] s.kind = "Chunked" -> [m |-> ChunkedBodyEncoder_update_header(m), err |-> "ok"]
      [] OTHER -> [m |-> m, err |-> "Other"]

\* BodyEncode::update_header on the header of message m
BodyEncoder_update_header(s, m) ==
    CASE s.kind = "WithLength" ->
            [m |-> HeaderMut_add_field(m, ContentLength, to_string(E_requiring_bytes(s.e)[2])),
             err |-> "ok"]
      [] s.kind = "Chunked" -> [m |-> ChunkedBodyEncoder_update_header(m), err |-> "ok"]
      [] OTHER -> [m |-> m, err |-> "Other"]

BodyEncoder_encode(s, L) ==
    CASE s.kind = "NotStarted" -> EncRet(s, 0, Blank(L), "ok")
      [] s.kind = "None" -> EncRet(s, 0, Blank(L), "Other")
      [] s.kind = "WithLength" ->
            Bind(E_encode(s.e, L), LAMBDA r :    EncRet([s EXCEPT !.e = r.st], r.n, r.buf, r.err))
      [] s.kind = "Chunked" ->
            Bind(ChunkedBodyEncoder_encode(s.e, L), LAMBDA r :
                EncRet([s EXCEPT !.e = r.st], r.n, r.buf, r.err))

-----------------------------------------------------------------------------
(* Message encoders (message.rs, request.rs)                               *)

MessageEncoder_new(body) == [before_body |-> BytesEncoder_new, body |-> body]

MessageEncoder_is_idle(s) == BytesEncoder_is_idle(s.before_body) /\ BodyEncoder_is_idle(s.body)

\* A start_encoding that ends the header before the body encoder has added
\* its fields.
MessageEncoder_start_encoding_blank_first(s, m) ==
    Bind(BodyEncoder_start_encoding(s.body, m.body), LAMBDA b :
        Bind(BodyEncoder_update_header(b.st, [m EXCEPT !.buf = @ \o CRLF]), LAMBDA h :
        Bind(BytesEncoder_start_encoding(s.before_body, h.m.buf), LAMBDA bb :
        IF ~MessageEncoder_is_idle(s) THEN [st |-> s, err |-> "EncoderFull"]
        ELSE IF b.err # "ok" THEN [st |-> [s EXCEPT !.body = b.st], err |-> b.err]
        ELSE IF h.err # "ok" THEN [st |-> [s EXCEPT !.body = b.st], err |-> h.err]
        ELSE [st |-> [before_body |-> bb.st, body |-> b.st], err |-> bb.err])))

MessageEncoder_start_encoding(s, m) ==
    Bind(BodyEncoder_start_encoding(s.body, m.body), LAMBDA b :
        Bind(BodyEncoder_update_header(b.st, m), LAMBDA h :
        Bind(BytesEncoder_start_encoding(s.before_body, h.m.buf \o CRLF), LAMBDA bb :
        IF ~MessageEncoder_is_idle(s) THEN [st |-> s, err |-> "EncoderFull"]
        ELSE IF b.err # "ok" THEN [st |-> [s EXCEPT !.body = b.st], err |-> b.err]
        ELSE IF h.err # "ok" THEN [st |-> [s EXCEPT !.body = b.st], err |-> h.err]
        ELSE [st |-> [before_body |-> bb.st, body |-> b.st], err |-> bb.err])))

\* An encode that forgets what the bytes before the body took.
MessageEncoder_encode_offset_lost(s, L) ==
    Bind(BytesEncoder_encode(s.before_body, L), LAMBDA r :
        Bind(IF BytesEncoder_is_idle(s.before_body) THEN Blank(L) ELSE r.buf, LAMBDA base :
        Bind(IF BytesEncoder_is_idle(s.before_body) THEN s ELSE [s EXCEPT !.before_body = r.st], LAMBDA t :
        Bind(BodyEncoder_encode(t.body, L), LAMBDA b :
        IF ~BytesEncoder_is_idle(t.before_body) THEN EncRet(t, 0, base, "ok")
        ELSE EncRet([t EXCEPT !.body = b.st], IF b.err = "ok" THEN b.n ELSE 0,
                    Overlay(base, 0, b.buf), b.err)))))

MessageEncoder_encode(s, L) ==
    Bind(BytesEncoder_encode(s.before_body, L), LAMBDA r :
        Bind(IF BytesEncoder_is_idle(s.before_body) THEN 0 ELSE r.n, LAMBDA offset :
        Bind(IF BytesEncoder_is_idle(s.before_body) THEN Blank(L) ELSE r.buf, LAMBDA base :
        Bind(IF BytesEncoder_is_idle(s.before_body) THEN s ELSE [s EXCEPT !.before_body = r.st], LAMBDA t :
        Bind(BodyEncoder_encode(t.body, L - offset), LAMBDA b :
        IF ~BytesEncoder_is_idle(t.before_body) THEN EncRet(t, offset, base, "ok")
        ELSE EncRet([t EXCEPT !.body = b.st],
                    IF b.err = "ok" THEN offset + b.n ELSE 0,
                    Overlay(base, offset, b.buf), b.err))))))

RequestEncoder_new(body) == [before_body |-> BytesEncoder_new, body |-> body]

RequestEncoder_is_idle(s) == BytesEncoder_is_idle(s.before_body) /\ BodyEncoder_is_idle(s.body)

\* The result of update_header is dropped and the buffer is handed to the
\* bytes encoder as the header left it.
RequestEncoder_start_encoding(s, m) ==
    Bind(BodyEncoder_start_encoding(s.body, m.body), LAMBDA b :
        Bind(BodyEncoder_update_header(b.st, m), LAMBDA h :
        Bind(BytesEncoder_start_encoding(s.before_body, h.m.buf), LAMBDA bb :
        IF ~RequestEncoder_is_idle(s) THEN [st |-> s, err |-> "EncoderFull"]
        ELSE IF b.err # "ok" THEN [st |-> [s EXCEPT !.body = b.st], err |-> b.err]
        ELSE [st |-> [before_body |-> bb.st, body |-> b.st], err |-> bb.err])))

\* The count before_body.encode returns is dropped: offset stays 0, so the
\* body is stored from the start of the buffer and only its count returned.
RequestEncoder_encode(s, L) ==
    Bind(BytesEncoder_encode(s.before_body, L), LAMBDA r :
        Bind(0, LAMBDA offset :
        Bind(IF BytesEncoder_is_idle(s.before_body) THEN Blank(L) ELSE r.buf, LAMBDA base :
        Bind(IF BytesEncoder_is_idle(s.before_body) THEN s ELSE [s EXCEPT !.before_body = r.st], LAMBDA t :
        Bind(BodyEncoder_encode(t.body, L - offset), LAMBDA b :
        IF ~BytesEncoder_is_idle(t.before_body) THEN EncRet(t, offset, base, "ok")
        ELSE EncRet([t EXCEPT !.body = b.st],
                    IF b.err = "ok" THEN offset + b.n ELSE 0,
                    Overlay(base, offset, b.buf), b.err))))))

-----------------------------------------------------------------------------
(* Bounds and the values the behaviours draw their inputs from             *)

\* The most add_field calls made on one message.
MaxFields == 2

\* Output buffers have length 0, 1, MaxSmallBuf or MaxBuf.
MaxSmallBuf == 5
MaxBuf == 64

\* No encode call is made once the caller has collected MaxTail bytes more
\* than the start line and the fields it added take.
MaxTail == 52

\* A decode call is offered at most MaxFrag bytes, or everything left.
MaxFrag == 2

BufLens == {0, 1, MaxSmallBuf, MaxBuf}

\* GET /foo HTTP/1.1 and P * HTTP/1.0
RequestLines ==
    {[method |-> <<71, 69, 84>>, target |-> <<47, 102, 111, 111>>, version |-> "V1_1"],
     [method |-> <<80>>, target |-> <<42>>, version |-> "V1_0"]}

\* HTTP/1.0 200 OK and HTTP/1.1 999 with an empty reason phrase
StatusLines ==
    {[version |-> "V1_0", status |-> 200, reason |-> <<79, 75>>],
     [version |-> "V1_1", status |-> 999, reason |-> <<>>]}

\* ("X", "y"), ("Host", "a.b")
FieldPool == {[name |-> <<88>>, value |-> <<121>>],
              [name |-> <<72, 111, 115, 116>>, value |-> <<97, 46, 98>>]}

\* "", "barbaz"
Bodies == {<<>>, <<98, 97, 114, 98, 97, 122>>}

\* The payload encoder a body encoder is built over
E_new(payload) ==
    CASE payload = "Bytes" -> BytesEncoder_new
      [] payload = "Repeat" -> Repeat_new
      [] payload = "Endless" -> Endless_new
      [] payload = "Gated" -> Gated_new

-----------------------------------------------------------------------------
(* Encoding a message and decoding what was collected                      *)

InitRequest ==
    /\ mode = "request"
    /\ \E l \in RequestLines, b \in Bodies, payload \in {"Bytes"} :
          /\ item = [parts |-> [method |-> l.method, target |-> l.target,
                                version |-> l.version, fields |-> <<>>, body |-> b],
                     msg |-> Request_new(l.method, l.target, l.version, b)]
          /\ enc = RequestEncoder_new(BodyEncoder_new(E_new(payload)))

InitResponse ==
    /\ mode = "response"
    /\ \E l \in StatusLines, b \in Bodies, payload \in {"Bytes", "Repeat"} :
          /\ item = [parts |-> [version |-> l.version, status |-> l.status,
                                reason |-> l.reason, fields |-> <<>>, body |-> b],
                     msg |-> Response_new(l.version, l.status, l.reason, b)]
          /\ enc = MessageEncoder_new(BodyEncoder_new(E_new(payload)))

Init ==
    /\ InitRequest \/ InitResponse
    /\ phase = "new"
    /\ wire = <<>>
    /\ input = <<>>
    /\ pos = 0
    /\ dec = NoItem
    /\ out = NoItem
    /\ err = "ok"

\* request.header_mut().add_field(HeaderField::new(name, value)?)
AddField(f) ==
    /\ phase = "new"
    /\ Len(item.msg.header) < MaxFields
    /\ HeaderField_new(f.name, f.value)
    /\ item' = [item EXCEPT !.msg = HeaderMut_add_field(@, f.name, f.value),
                            !.parts.fields = Append(@, f)]
    /\ UNCHANGED <<mode, phase, enc, wire, input, pos, dec, out, err>>

RequestStartEncoding ==
    /\ mode = "request"
    /\ phase = "new"
    /\ LET r == RequestEncoder_start_encoding(enc, item.msg)
       IN  /\ enc' = r.st
           /\ err' = r.err
           /\ phase' = IF r.err = "ok" THEN "encoding" ELSE "error"
    /\ UNCHANGED <<mode, item, wire, input, pos, dec, out>>

ResponseStartEncoding ==
    /\ mode = "response"
    /\ phase = "new"
    /\ LET r == MessageEncoder_start_encoding(enc, item.msg)
       IN  /\ enc' = r.st
           /\ err' = r.err
           /\ phase' = IF r.err = "ok" THEN "encoding" ELSE "error"
    /\ UNCHANGED <<mode, item, wire, input, pos, dec, out>>

\* One encode call on a buffer of length L; the caller keeps the first n
\* bytes of the buffer, n being the count the call returned.
RequestEncode(L) ==
    /\ mode = "request"
    /\ phase = "encoding"
    /\ ~RequestEncoder_is_idle(enc)
    /\ Len(wire) < Len(item.msg.buf) + MaxTail
    /\ LET r == RequestEncoder_encode(enc, L)
       IN  /\ enc' = r.st
           /\ err' = r.err
           /\ phase' = IF r.err = "ok" THEN "encoding" ELSE "error"
           /\ wire' = wire \o Take(r.buf, r.n)
    /\ UNCHANGED <<mode, item, input, pos, dec, out>>

ResponseEncode(L) ==
    /\ mode = "response"
    /\ phase = "encoding"
    /\ ~MessageEncoder_is_idle(enc)
    /\ Len(wire) < Len(item.msg.buf) + MaxTail
    /\ LET r == MessageEncoder_encode(enc, L)
       IN  /\ enc' = r.st
           /\ err' = r.err
           /\ phase' = IF r.err = "ok" THEN "encoding" ELSE "error"
           /\ wire' = wire \o Take(r.buf, r.n)
    /\ UNCHANGED <<mode, item, input, pos, dec, out>>

DefaultOptions == DecodeOptions(65535, 65535)

ResponseDecoder_with_options(body_decoder, options) ==
    MessageDecoder_new(StatusLineDecoder_new, body_decoder, options)

\* The collected bytes are handed to a fresh decoder once the encoder is idle.
StartDecoding ==
    /\ phase = "encoding"
    /\ IF mode = "request" THEN RequestEncoder_is_idle(enc) ELSE MessageEncoder_is_idle(enc)
    /\ phase' = "decoding"
    /\ input' = wire
    /\ dec' = IF mode = "request"
              THEN RequestDecoder_with_options(BodyDecoder_new, DefaultOptions)
              ELSE ResponseDecoder_with_options(BodyDecoder_new, DefaultOptions)
    /\ UNCHANGED <<mode, item, enc, wire, pos, out, err>>

\* What one decode call leaves behind: k bytes were offered, r came back.
Decoded(k, r) ==
    /\ dec' = r.st
    /\ err' = r.err
    /\ pos' = pos + r.n
    /\ out' = r.item
    /\ phase' = IF r.err # "ok" THEN "error"
                ELSE IF r.item # NoItem THEN "done" ELSE "decoding"
    /\ UNCHANGED <<mode, item, enc, wire, input>>

\* One decode call on the next k unconsumed bytes; eos may only be signalled
\* with the last bytes of the input.
RequestDecode(k, eos) ==
    /\ mode = "request"
    /\ phase = "decoding"
    /\ k <= Len(input) - pos
    /\ eos => k = Len(input) - pos
    /\ Decoded(k, RequestDecoder_decode(dec, SubSeq(input, pos + 1, pos + k), eos))

ResponseDecode(k, eos) ==
    /\ mode = "response"
    /\ phase = "decoding"
    /\ k <= Len(input) - pos
    /\ eos => k = Len(input) - pos
    /\ Decoded(k, MessageDecoder_decode(dec, SubSeq(input, pos + 1, pos + k), eos))

Next ==
    \/ \E f \in FieldPool : AddField(f)
    \/ RequestStartEncoding
    \/ ResponseStartEncoding
    \/ \E L \in BufLens : RequestEncode(L)
    \/ \E L \in BufLens : ResponseEncode(L)
    \/ StartDecoding
    \/ RequestDecode(Len(input) - pos, TRUE)
    \/ ResponseDecode(Len(input) - pos, TRUE)

Spec == Init /\ [][Next]_vars

-----------------------------------------------------------------------------
(* Decoding messages written on the wire by a peer                         *)

\* Header fields as a peer may write them: optional whitespace before and
\* after the value.  X:y ; Host: \ta b \t (a value with inner whitespace)
WireFieldLists ==
    LET x == [name |-> <<88>>, pre |-> <<>>, value |-> <<121>>, post |-> <<>>]
        host == [name |-> <<72, 111, 115, 116>>, pre |-> <<32, 9>>,
                 value |-> <<97, 32, 98>>, post |-> <<32, 9>>]
    IN  {<<>>, <<x>>, <<host, x>>}

WireField(f) == f.name \o <<58>> \o f.pre \o f.value \o f.post \o <<13, 10>>

RECURSIVE WireFields(_)
WireFields(fs) == IF fs = <<>> THEN <<>> ELSE WireField(Head(fs)) \o WireFields(Tail(fs))

\* The field announcing the framing, written after the other fields
FramingFields(framing, body) ==
    CASE framing = "length" ->
            <<[name |-> ContentLength, pre |-> <<32>>,
               value |-> to_string(Len(body)), post |-> <<>>]>>
      [] framing = "chunked" ->
            <<[name |-> TransferEncoding, pre |-> <<32>>, value |-> Chunked, post |-> <<>>]>>
      [] OTHER -> <<>>

\* The body as framed on the wire; a chunked body is sent as a chunk of one
\* byte, a chunk holding the rest with a zero-padded size, and a last chunk
\* written "00".
BodyWire(framing, body) ==
    IF framing # "chunked" THEN body
    ELSE IF body = <<>> THEN <<48, 13, 10, 13, 10>>
    ELSE <<49, 13, 10, body[1], 13, 10>>
         \o <<48, 48 + (Len(body) - 1), 13, 10>> \o Rest(body, 1) \o <<13, 10>>
         \o <<48, 48, 13, 10, 13, 10>>

\* "HT": the first bytes of a pipelined message
Tails == {<<>>, <<72, 84>>}

Framings == {"length", "chunked", "none"}

\* A message on the wire: its parts, and the bytes of its start line, its
\* header block, its framed body and whatever follows it in the input.
WireCase(start_line, parts, fs, framing, body, tail) ==
    LET all == fs \o FramingFields(framing, body)
    IN  [parts |-> [parts EXCEPT !.fields = [i \in 1..Len(all) |->
                                    [name |-> all[i].name, value |-> all[i].value]],
                                 !.body = body],
         layout |-> all,
         framing |-> framing,
         start_line |-> start_line,
         header |-> WireFields(all) \o <<13, 10>>,
         body |-> BodyWire(framing, body),
         tail |-> tail]

Framed(c) == c.framing # "none" \/ c.tail = <<>>

RequestCases ==
    {c \in {WireCase(l.method \o <<32>> \o l.target \o <<32>> \o HttpVersion_as_str(l.version)
                  \o <<13, 10>>,
              [method |-> l.method, target |-> l.target, version |-> l.version,
               fields |-> <<>>, body |-> <<>>],
              fs, framing, b, tail) :
        l \in RequestLines, fs \in WireFieldLists, framing \in Framings,
        b \in Bodies, tail \in Tails} : Framed(c)}

ResponseCases ==
    {c \in {WireCase(HttpVersion_as_str(l.version) \o <<32>> \o StatusCode_as_bytes(l.status)
                  \o <<32>> \o l.reason \o <<13, 10>>,
              [version |-> l.version, status |-> l.status, reason |-> l.reason,
               fields |-> <<>>, body |-> <<>>],
              fs, framing, b, tail) :
        l \in StatusLines, fs \in WireFieldLists, framing \in Framings,
        b \in Bodies, tail \in Tails} : Framed(c)}

WireBytes(c) == c.start_line \o c.header \o c.body \o c.tail

\* The state a decoder built with the given options is in before its first
\* decode call on the bytes of case c.
InitDecoding(c, options) ==
    /\ item = c
    /\ input = WireBytes(c)
    /\ dec = IF mode = "request"
             THEN RequestDecoder_with_options(BodyDecoder_new, options)
             ELSE ResponseDecoder_with_options(BodyDecoder_new, options)
    /\ phase = "decoding"
    /\ enc = NoItem
    /\ wire = <<>>
    /\ pos = 0
    /\ out = NoItem
    /\ err = "ok"

InitDecode ==
    /\ mode \in {"request", "response"}
    /\ \E c \in (IF mode = "request" THEN RequestCases ELSE ResponseCases) :
          InitDecoding(c, DefaultOptions)

\* The lengths of the fragment the next decode call may be offered
FragLens == {k \in 0..(Len(input) - pos) : k <= MaxFrag \/ k = Len(input) - pos \/ pos = 0}

NextDecode ==
    \/ \E k \in FragLens, eos \in BOOLEAN : RequestDecode(k, eos)
    \/ \E k \in FragLens, eos \in BOOLEAN : ResponseDecode(k, eos)

SpecDecode == InitDecode /\ [][NextDecode]_vars

\* Decoders built with limits one byte under and one byte over what the
\* start line and the header block of the message take.
InitLimits ==
    /\ mode = "response"
    /\ \E c \in {x \in ResponseCases : x.framing = "length" /\ x.tail = <<>>} :
       \E S \in {Len(c.start_line) - 1, Len(c.start_line) + 1},
          H \in {Len(c.header) - 1, Len(c.header) + 1} :
          InitDecoding(c, DecodeOptions(S, H))

NextLimits == \E k \in FragLens, eos \in BOOLEAN : ResponseDecode(k, eos)

SpecLimits == InitLimits /\ [][NextLimits]_vars

-----------------------------------------------------------------------------
(* Decoding chunked bodies written by a peer                               *)

\* The most zeros a peer writes in front of a chunk size.
MaxPad == 4

\* The chunk data of the bodies offered: "a" "foo"; "a" "b" "c"; no chunk;
\* one chunk of ten bytes; one of twenty-seven; one whose data reads like
\* the end of a chunked body.
ChunkLists ==
    {<<<<97>>, <<102, 111, 111>>>>,
     <<<<97>>, <<98>>, <<99>>>>,
     <<>>,
     <<[i \in 1..10 |-> 120]>>,
     <<[i \in 1..27 |-> 121]>>,
     <<<<13, 10, 48, 13, 10, 13, 10>>>>}

\* A chunk size as a peer writes it: hex digits in either case after pad zeros
RECURSIVE HexText(_, _)
HexText(n, upper) ==
    LET d == n % 16
        c == IF d < 10 THEN 48 + d ELSE (IF upper THEN 65 ELSE 97) + (d - 10)
    IN  IF n < 16 THEN <<c>> ELSE HexText(n \div 16, upper) \o <<c>>

ChunkWire(data, upper, pad) ==
    [i \in 1..pad |-> 48] \o HexText(Len(data), upper) \o <<13, 10>> \o data \o <<13, 10>>

RECURSIVE ChunksWire(_, _, _)
ChunksWire(chunks, upper, pad) ==
    IF chunks = <<>> THEN [i \in 1..pad |-> 48] \o <<48, 13, 10, 13, 10>>
    ELSE ChunkWire(Head(chunks), upper, pad) \o ChunksWire(Tail(chunks), upper, pad)

RECURSIVE Flatten(_)
Flatten(chunks) == IF chunks = <<>> THEN <<>> ELSE Head(chunks) \o Flatten(Tail(chunks))

InitChunked ==
    /\ mode = "chunked"
    /\ \E chunks \in ChunkLists, upper \in BOOLEAN, pad \in 0..MaxPad, tail \in Tails :
          /\ item = [chunks |-> chunks,
                     body |-> ChunksWire(chunks, upper, pad),
                     tail |-> tail]
          /\ input = ChunksWire(chunks, upper, pad) \o tail
    /\ dec = ChunkedBodyDecoder_new(RemainingBytesDecoder_new)
    /\ phase = "decoding"
    /\ enc = NoItem
    /\ wire = <<>>
    /\ pos = 0
    /\ out = NoItem
    /\ err = "ok"

\* One ChunkedBodyDecoder::decode call on the next k unconsumed bytes
ChunkedDecode(k, eos) ==
    /\ mode = "chunked"
    /\ phase = "decoding"
    /\ k <= Len(input) - pos
    /\ eos => k = Len(input) - pos
    /\ LET r == ChunkedBodyDecoder_decode(dec, SubSeq(input, pos + 1, pos + k), eos)
       IN  /\ dec' = r.st
           /\ err' = r.err
           /\ pos' = pos + r.n
           /\ phase' = IF r.err # "ok" THEN "error" ELSE "decoding"
    /\ UNCHANGED <<mode, item, enc, wire, input, out>>

\* ChunkedBodyDecoder::finish_decoding, which the code lets be called in
\* any state of the decoder
ChunkedFinishDecoding ==
    /\ mode = "chunked"
    /\ phase = "decoding"
    /\ LET r == ChunkedBodyDecoder_finish_decoding(dec)
       IN  /\ dec' = r.st
           /\ err' = r.err
           /\ out' = r.item
           /\ phase' = IF r.err # "ok" THEN "error" ELSE "done"
    /\ UNCHANGED <<mode, item, enc, wire, input, pos>>

NextChunked ==
    \/ \E k \in FragLens, eos \in BOOLEAN : ChunkedDecode(k, eos)
    \/ ChunkedFinishDecoding

SpecChunked == InitChunked /\ [][NextChunked]_vars

-----------------------------------------------------------------------------
(* Decoding header blocks with HeaderDecoder                               *)

\* Field lines as a peer writes them: "foo: bar", "111:222   ",
\* "a: \tb c\t ", "x:" and "k:v", each ended by CRLF.
HeaderLinePool ==
    {<<102, 111, 111, 58, 32, 98, 97, 114, 13, 10>>,
     <<49, 49, 49, 58, 50, 50, 50, 32, 32, 32, 13, 10>>,
     <<97, 58, 32, 9, 98, 32, 99, 9, 32, 13, 10>>,
     <<120, 58, 13, 10>>,
     <<107, 58, 118, 13, 10>>}

\* Header blocks of up to MaxFields lines
HeaderBlocks == UNION {[1..n -> HeaderLinePool] : n \in 0..MaxFields}

\* The positions handed to set_start_position: 0, and the length of the
\* status line "HTTP/1.1 200 OK\r\n"
StartPositions == {0, 17}

InitHeader ==
    /\ mode = "header"
    /\ \E lines \in HeaderBlocks, start \in StartPositions, tail \in Tails :
          /\ item = [lines |-> lines, block |-> Flatten(lines) \o CRLF, start |-> start]
          /\ input = Flatten(lines) \o CRLF \o tail
    /\ dec = HeaderDecoder_new
    /\ phase = "new"
    /\ enc = NoItem
    /\ wire = <<>>
    /\ pos = 0
    /\ out = NoItem
    /\ err = "ok"

\* HeaderDecoder::set_start_position, called before the block is decoded
HeaderSetStartPosition ==
    /\ mode = "header"
    /\ phase = "new"
    /\ dec' = HeaderDecoder_set_start_position(dec, item.start)
    /\ phase' = "decoding"
    /\ UNCHANGED <<mode, item, enc, wire, input, pos, out, err>>

\* One HeaderDecoder::decode call on the next k unconsumed bytes
HeaderDecode(k, eos) ==
    /\ mode = "header"
    /\ phase = "decoding"
    /\ k <= Len(input) - pos
    /\ eos => k = Len(input) - pos
    /\ LET r == HeaderDecoder_decode(dec, SubSeq(input, pos + 1, pos + k), eos)
       IN  /\ dec' = r.st
           /\ err' = r.err
           /\ pos' = pos + r.n
           /\ phase' = IF r.err # "ok" THEN "error" ELSE "decoding"
    /\ UNCHANGED <<mode, item, enc, wire, input, out>>

\* HeaderDecoder::finish_decoding, which the code lets be called in any
\* state of the decoder
HeaderFinishDecoding ==
    /\ mode = "header"
    /\ phase = "decoding"
    /\ LET r == HeaderDecoder_finish_decoding(dec)
       IN  /\ dec' = r.st
           /\ err' = r.err
           /\ out' = r.item
           /\ phase' = IF r.err # "ok" THEN "error" ELSE "done"
    /\ UNCHANGED <<mode, item, enc, wire, input, pos>>

NextHeader ==
    \/ HeaderSetStartPosition
    \/ \E k \in FragLens, eos \in BOOLEAN : HeaderDecode(k, eos)
    \/ HeaderFinishDecoding

SpecHeader == InitHeader /\ [][NextHeader]_vars

\* Header blocks a peer may get wrong: up to MaxLine bytes out of 'a', ':',
\* SP, CR, LF and NUL, followed by CRLF CRLF.
MaxLine == 5

HeaderAlphabet == {97, 58, 32, 13, 10, 0}

HeaderByteStrings == UNION {[1..n -> HeaderAlphabet] : n \in 0..MaxLine}

InitHeaderBytes ==
    /\ mode = "header"
    /\ \E x \in HeaderByteStrings :
          /\ item = [lines |-> <<>>, block |-> x, start |-> 0]
          /\ input = x \o CRLF \o CRLF
    /\ dec = HeaderDecoder_new
    /\ phase = "new"
    /\ enc = NoItem
    /\ wire = <<>>
    /\ pos = 0
    /\ out = NoItem
    /\ err = "ok"

SpecHeaderBytes == InitHeaderBytes /\ [][NextHeader]_vars

-----------------------------------------------------------------------------
(* The element decoders one by one, on input a peer may get wrong           *)

\* The longest method, request target and chunk size line offered, the
\* longest input for the status code, and for the reason phrase
MaxToken == 3
MaxStatus == 4
MaxReason == 4

\* The most items taken from one input
MaxItems == 2

\* All byte strings of up to n bytes over an alphabet
Strings(alphabet, n) == UNION {[1..k -> alphabet] : k \in 0..n}

Prefixes(bytes) == {Take(bytes, n) : n \in 0..Len(bytes)}

\* "HTTP/1.1" with one byte replaced by '0', '1', '2' or 'h'
VersionTexts ==
    {[HTTP_1_1 EXCEPT ![i] = b] : i \in 1..8, b \in {48, 49, 50, 104}}

\* The decoders that hand out their item from decode
OldApi == {"method", "version"}

ElementKinds ==
    {"method", "version", "target", "status", "reason", "header", "chunk_size", "chunked"}

\* The input offered to each decoder
ElementInputs(kind) ==
    CASE kind = "method" -> Strings({71, 58, 32}, MaxToken)
      [] kind = "version" ->
            {Take(v, 3) : v \in VersionTexts}
            \cup VersionTexts
            \cup {v \o CRLF : v \in VersionTexts}
            \cup {v \o w : v \in {HTTP_1_0, HTTP_1_1}, w \in {HTTP_1_0, HTTP_1_1}}
      [] kind = "target" -> Strings({47, 32, 13}, MaxToken)
      [] kind = "status" -> Strings({48, 49, 57, 97, 43, 32, 13}, MaxStatus)
      [] kind = "reason" -> Strings({79, 32, 13, 10}, MaxReason)
      [] kind = "header" ->
            Prefixes(<<97, 58, 98, 13, 10, 13, 10>>)
            \cup {<<102, 111, 111, 58, 32, 98, 97, 114>>}
      [] kind = "chunk_size" -> Strings({49, 13, 10}, MaxToken)
      [] kind = "chunked" -> Prefixes(<<49, 13, 10, 97, 13, 10, 48, 13, 10, 13, 10>>)

Element_new(kind) ==
    CASE kind = "method" -> MethodDecoderB_new
      [] kind = "version" -> HttpVersionDecoder_new
      [] kind = "target" -> RequestTargetDecoder_new
      [] kind = "status" -> StatusCodeDecoder_new
      [] kind = "reason" -> ReasonPhraseDecoder_new
      [] kind = "header" -> HeaderDecoder_new
      [] kind = "chunk_size" -> ChunkSizeDecoder_new
      [] kind = "chunked" -> ChunkedBodyDecoder_new(RemainingBytesDecoder_new)
      [] kind = "chunked_fixed" -> ChunkedBodyDecoder_new(CopyableBytesDecoder_new(1))

Element_is_idle(kind, s) ==
    CASE kind = "target" -> s.idle
      [] kind = "status" -> StatusCodeDecoder_is_idle(s)
      [] kind = "reason" -> ReasonPhraseDecoder_is_idle(s)
      [] kind = "header" -> HeaderDecoder_is_idle(s)
      [] kind = "chunk_size" -> ChunkSizeDecoder_is_idle(s)
      [] kind \in {"chunked", "chunked_fixed"} -> ChunkedBodyDecoder_is_idle(s)

\* decode of each decoder, with the item the call hands out (none for the
\* decoders that hand it out from finish_decoding).  HttpVersionDecoder has
\* an item when the call has filled the eight bytes.
Element_decode(kind, s, buf, eos) ==
    CASE kind = "method" -> MethodDecoderB_decode(s, buf, eos)
      [] kind = "version" ->
            Bind(HttpVersionDecoder_decode(s, buf, eos), LAMBDA r :
                RetI(r.st, r.n, r.err,
                     IF r.err = "ok" /\ r.n > 0 /\ r.st.cbd.offset = 0
                     THEN Some(r.st.item) ELSE NoItem))
      [] OTHER ->
            Bind(CASE kind = "target" -> RequestTargetDecoder_decode(s, buf, eos)
                   [] kind = "status" -> StatusCodeDecoder_decode(s, buf, eos)
                   [] kind = "reason" -> ReasonPhraseDecoder_decode(s, buf, eos)
                   [] kind = "header" -> HeaderDecoder_decode(s, buf, eos)
                   [] kind = "chunk_size" -> ChunkSizeDecoder_decode(s, buf, eos)
                   [] kind \in {"chunked", "chunked_fixed"} ->
                         ChunkedBodyDecoder_decode(s, buf, eos), LAMBDA r :
                RetI(r.st, r.n, r.err, NoItem))

\* finish_decoding of each decoder that has one; the item as an Option
Element_finish_decoding(kind, s) ==
    IF kind \in {"header", "chunked", "chunked_fixed"}
    THEN IF kind = "header" THEN HeaderDecoder_finish_decoding(s)
         ELSE ChunkedBodyDecoder_finish_decoding(s)
    ELSE Bind(CASE kind = "target" -> RequestTargetDecoder_finish_decoding(s)
                [] kind = "status" -> StatusCodeDecoder_finish_decoding(s)
                [] kind = "reason" -> ReasonPhraseDecoder_finish_decoding(s)
                [] kind = "chunk_size" -> ChunkSizeDecoder_finish_decoding(s), LAMBDA f :
             [st |-> f.st, item |-> IF f.err = "ok" THEN Some(f.item) ELSE NoItem,
              err |-> f.err])

InitElements ==
    /\ mode = "element"
    /\ \E kind \in ElementKinds :
          /\ item = [kind |-> kind]
          /\ input \in ElementInputs(kind)
          /\ dec = Element_new(kind)
    /\ phase = "decoding"
    /\ enc = NoItem
    /\ wire = <<>>
    /\ pos = 0
    /\ out = <<>>
    /\ err = "ok"

\* One decode call on the next k unconsumed bytes; out collects the items
ElementDecode(k, eos) ==
    /\ mode = "element"
    /\ phase = "decoding"
    /\ Len(out) < MaxItems
    /\ k <= Len(input) - pos
    /\ eos => k = Len(input) - pos
    /\ LET r == Element_decode(item.kind, dec, SubSeq(input, pos + 1, pos + k), eos)
       IN  /\ dec' = r.st
           /\ err' = r.err
           /\ pos' = pos + r.n
           /\ out' = out \o r.item
           /\ phase' = IF r.err # "ok" THEN "error" ELSE "decoding"
    /\ UNCHANGED <<mode, item, enc, wire, input>>

\* finish_decoding, which the code lets be called in any state
ElementFinishDecoding ==
    /\ mode = "element"
    /\ phase = "decoding"
    /\ item.kind \notin OldApi
    /\ Len(out) < MaxItems
    /\ LET r == Element_finish_decoding(item.kind, dec)
       IN  /\ dec' = r.st
           /\ err' = r.err
           /\ out' = out \o r.item
           /\ phase' = IF r.err # "ok" THEN "error" ELSE "decoding"
    /\ UNCHANGED <<mode, item, enc, wire, input, pos>>

NextElements ==
    \/ \E k \in FragLens, eos \in BOOLEAN : ElementDecode(k, eos)
    \/ ElementFinishDecoding

SpecElements == InitElements /\ [][NextElements]_vars

-----------------------------------------------------------------------------
(* ChunkSizeDecoder on size lines of every shape and width                 *)

\* The longest size line made of arbitrary bytes, and the most leading zeros
\* put before a wide size
MaxSizeLine == 3
MaxZeros == 2

\* '0', 'f', 'A', ';', CR, LF
SizeLineAlphabet == {DIGIT0, LOWER_A + 5, UPPER_A, 59, CR, LF}

\* The digits of 2^64 - 1, 2^64, 2^64 + 1, 2^64 + 2^60 and 2^60
WideDigits ==
    { [i \in 1..U64Digits |-> 15],
      <<1>> \o U64_zero,
      <<1>> \o [U64_zero EXCEPT ![U64Digits] = 1],
      <<1, 1>> \o Tail(U64_zero),
      <<1>> \o Tail(U64_zero) }

WideLines ==
    { [i \in 1..z |-> DIGIT0] \o [i \in 1..Len(d) |-> HexDigit(d[i])] \o CRLF :
        z \in 0..MaxZeros, d \in WideDigits }

InitChunkSize ==
    /\ mode = "element"
    /\ item = [kind |-> "chunk_size"]
    /\ input \in Strings(SizeLineAlphabet, MaxSizeLine) \cup WideLines
    /\ dec = ChunkSizeDecoder_new
    /\ phase = "decoding"
    /\ enc = NoItem
    /\ wire = <<>>
    /\ pos = 0
    /\ out = <<>>
    /\ err = "ok"

SpecChunkSize == InitChunkSize /\ [][NextElements]_vars

-----------------------------------------------------------------------------
(* One decoder instance used for one item after another                    *)

\* The first response a reused decoder is given: HTTP/1.0 200 OK with the
\* field X:y, each framing, each body
FirstCases ==
    {c \in ResponseCases : /\ c.tail = <<>>
                           /\ c.parts.status = 200
                           /\ Len(c.layout) = IF c.framing = "none" THEN 1 ELSE 2
                           /\ c.layout[1].name = <<88>>}

\* The second: HTTP/1.1 999 with no field or with Host and X, each framing,
\* each body
SecondCases ==
    {c \in ResponseCases : /\ c.tail = <<>>
                           /\ c.parts.status = 999
                           /\ Len(c.layout) # (IF c.framing = "none" THEN 1 ELSE 2)}

InitReuse ==
    /\ mode = "reuse"
    /\ \E c1 \in FirstCases, c2 \in SecondCases :
          /\ item = [cases |-> <<c1, c2>>]
          /\ input = WireBytes(c1)
    /\ dec = ResponseDecoder_with_options(BodyDecoder_new, DefaultOptions)
    /\ phase = "decoding"
    /\ enc = NoItem
    /\ wire = <<>>
    /\ pos = 0
    /\ out = <<>>
    /\ err = "ok"

\* One decode call of the response decoder on the next k unconsumed bytes of
\* the current stream; out collects the messages it returns.
ReuseDecode(k, eos) ==
    /\ mode = "reuse"
    /\ phase = "decoding"
    /\ k <= Len(input) - pos
    /\ eos => k = Len(input) - pos
    /\ LET r == MessageDecoder_decode(dec, SubSeq(input, pos + 1, pos + k), eos)
       IN  /\ dec' = r.st
           /\ err' = r.err
           /\ pos' = pos + r.n
           /\ out' = out \o r.item
           /\ phase' = IF r.err # "ok" THEN "error"
                       ELSE IF r.item # NoItem THEN "done" ELSE "decoding"
    /\ UNCHANGED <<mode, item, enc, wire, input>>

\* The caller hands the same decoder the stream that carries the next message.
ReuseNextStream ==
    /\ mode = "reuse"
    /\ phase = "done"
    /\ Len(out) < Len(item.cases)
    /\ input' = WireBytes(item.cases[Len(out) + 1])
    /\ pos' = 0
    /\ phase' = "decoding"
    /\ UNCHANGED <<mode, item, enc, wire, dec, out, err>>

NextReuse ==
    \/ \E k \in FragLens, eos \in BOOLEAN : ReuseDecode(k, eos)
    \/ ReuseNextStream

\* Message decoders and element decoders, each instance decoding item after item
SpecReuse == (InitReuse \/ InitElements) /\ [][NextReuse \/ NextElements]_vars

-----------------------------------------------------------------------------
(* The body decoder chosen from a header                                   *)

\* The most fields of a header the body decoder is initialized with.
MaxDispatchFields == 2

\* Content-Length: 6 ; CONTENT-LENGTH: 0 ; content-length: 6x ;
\* Transfer-Encoding: chunked ; transfer-encoding: Chunked ;
\* TRANSFER-ENCODING: gzip, chunked ; X: y ; Content-Len: 6
DispatchFieldPool ==
    {[name |-> ContentLength, value |-> <<54>>],
     [name |-> <<67, 79, 78, 84, 69, 78, 84, 45, 76, 69, 78, 71, 84, 72>>, value |-> <<48>>],
     [name |-> ContentLengthLower, value |-> <<54, 120>>],
     [name |-> TransferEncoding, value |-> Chunked],
     [name |-> TransferEncodingLower, value |-> <<67, 104, 117, 110, 107, 101, 100>>],
     [name |-> <<84, 82, 65, 78, 83, 70, 69, 82, 45, 69, 78, 67, 79, 68, 73, 78, 71>>,
      value |-> <<103, 122, 105, 112, 44, 32>> \o Chunked],
     [name |-> <<88>>, value |-> <<121>>],
     [name |-> <<67, 111, 110, 116, 101, 110, 116, 45, 76, 101, 110>>, value |-> <<54>>]}

DispatchHeaders == UNION {[1..n -> DispatchFieldPool] : n \in 0..MaxDispatchFields}

\* "barbazHT" and "1\r\na\r\n0\r\n\r\nHT"
BodyStreams ==
    {<<98, 97, 114, 98, 97, 122, 72, 84>>,
     <<49, 13, 10, 97, 13, 10, 48, 13, 10, 13, 10, 72, 84>>}

InitBodyDispatch ==
    /\ mode = "body"
    /\ \E fs \in DispatchHeaders : item = [fields |-> fs]
    /\ input \in BodyStreams
    /\ dec = BodyDecoder_new
    /\ phase = "new"
    /\ enc = NoItem
    /\ wire = <<>>
    /\ pos = 0
    /\ out = <<>>
    /\ err = "ok"

\* body.initialize(&header)
BodyInitialize ==
    /\ mode = "body"
    /\ phase = "new"
    /\ LET r == BodyDecoder_initialize(dec, item.fields)
       IN  /\ dec' = r.st
           /\ err' = r.err
           /\ phase' = IF r.err = "ok" THEN "decoding" ELSE "error"
    /\ UNCHANGED <<mode, item, enc, wire, input, pos, out>>

\* One decode call of the body decoder on the next k unconsumed bytes
BodyDecode(k, eos) ==
    /\ mode = "body"
    /\ phase = "decoding"
    /\ k <= Len(input) - pos
    /\ eos => k = Len(input) - pos
    /\ LET r == BodyDecoder_decode(dec, SubSeq(input, pos + 1, pos + k), eos)
       IN  /\ dec' = r.st
           /\ err' = r.err
           /\ pos' = pos + r.n
           /\ out' = out \o r.item
           /\ phase' = IF r.err # "ok" THEN "error"
                       ELSE IF r.item # NoItem THEN "done" ELSE "decoding"
    /\ UNCHANGED <<mode, item, enc, wire, input>>

NextBodyDispatch ==
    \/ BodyInitialize
    \/ \E k \in FragLens, eos \in BOOLEAN : BodyDecode(k, eos)

SpecBodyDispatch == InitBodyDispatch /\ [][NextBodyDispatch]_vars

-----------------------------------------------------------------------------
(* Encoding a payload with ChunkedBodyEncoder through buffers of many       *)
(* lengths, then decoding the collected bytes with ChunkedBodyDecoder       *)

\* The caller stops offering buffers once it holds this many bytes.
MaxChunkWire == 34

\* The most '0' filler bytes the caller collects for one payload.
MaxFiller == 3

\* The payloads: none, "a", "ab", "\r\n0\r\n\r\n", and seventeen different
\* bytes (more than one hex digit of chunk size).
ChunkPayloads ==
    {<<>>, <<97>>, <<97, 98>>, LastChunk, [i \in 1..17 |-> 96 + i]}

\* The buffer lengths offered: below 4, 4 and 5, around 3 + 0xF, and above
\* 4 + 0xFF.
ChunkBufLens == {0, 1, 3, 4, 5, 18, 19, 20, 260}

\* The payload encoders: U8Encoder::new().repeat() over any payload,
\* BytesEncoder over a payload that is not empty.
ChunkInners ==
    {i \in [payload : ChunkPayloads, kind : {"Bytes", "Repeat"}] :
        i.kind = "Bytes" => i.payload # <<>>}

InitChunkedEncoding ==
    /\ mode = "chunkenc"
    /\ item \in ChunkInners
    /\ enc = ChunkedBodyEncoder_new(E_new(item.kind))
    /\ phase = "new"
    /\ wire = <<>>
    /\ input = <<>>
    /\ pos = 0
    /\ dec = ChunkedBodyDecoder_new(RemainingBytesDecoder_new)
    /\ out = NoItem
    /\ err = "ok"

\* ChunkedBodyEncoder::start_encoding on the payload
ChunkedStartEncoding ==
    /\ mode = "chunkenc"
    /\ phase = "new"
    /\ LET r == ChunkedBodyEncoder_start_encoding(enc, item.payload)
       IN  /\ enc' = r.st
           /\ err' = r.err
           /\ phase' = IF r.err # "ok" THEN "error" ELSE "encoding"
    /\ UNCHANGED <<mode, item, wire, input, pos, dec, out>>

\* The number of '0' filler bytes an encode call on a buffer of length L
\* stores: the call reaches the branch for buffers shorter than 4 either at
\* once or after it has written the rest of the queued CRLF.
Filler(s, L) ==
    IF ~BytesEncoder_is_idle(s.last) \/ E_is_idle(s.inner) THEN 0
    ELSE IF ~BytesEncoder_is_idle(s.delim)
    THEN Bind(Len(s.delim.bytes) - s.delim.offset, LAMBDA d :
             IF d <= L /\ L - d < 4 THEN L - d ELSE 0)
    ELSE IF L < 4 THEN L ELSE 0

\* One ChunkedBodyEncoder::encode call on a buffer of length L; the caller
\* keeps the bytes the call reports.  While encoding, pos counts the filler
\* bytes collected.
ChunkedEncode(L) ==
    /\ mode = "chunkenc"
    /\ phase = "encoding"
    /\ ~ChunkedBodyEncoder_is_idle(enc)
    /\ pos + Filler(enc, L) <= MaxFiller
    /\ LET r == ChunkedBodyEncoder_encode(enc, L)
       IN  /\ Len(wire) + r.n <= MaxChunkWire
           /\ enc' = r.st
           /\ err' = r.err
           /\ wire' = wire \o Take(r.buf, r.n)
           /\ phase' = IF r.err # "ok" THEN "error" ELSE "encoding"
    /\ pos' = pos + Filler(enc, L)
    /\ UNCHANGED <<mode, item, input, dec, out>>

\* Once the encoder is idle the collected bytes are decoded:
\* ChunkedBodyDecoder::decode on all of them with eos, then finish_decoding;
\* input keeps the bytes the decoder left unconsumed.
ChunkedDecodeExact ==
    /\ mode = "chunkenc"
    /\ phase = "encoding"
    /\ ChunkedBodyEncoder_is_idle(enc)
    /\ LET r == ChunkedBodyDecoder_decode(dec, wire, TRUE)
           f == ChunkedBodyDecoder_finish_decoding(r.st)
       IN  /\ input' = Rest(wire, r.n)
           /\ dec' = IF r.err = "ok" THEN f.st ELSE r.st
           /\ err' = IF r.err = "ok" THEN f.err ELSE r.err
           /\ out' = IF r.err = "ok" THEN f.item ELSE NoItem
           /\ phase' = IF r.err = "ok" /\ f.err = "ok" THEN "done" ELSE "error"
    /\ UNCHANGED <<mode, item, enc, wire, pos>>

NextChunkedEncoding ==
    \/ ChunkedStartEncoding
    \/ \E L \in ChunkBufLens : ChunkedEncode(L)
    \/ ChunkedDecodeExact

SpecChunkedEncoding == InitChunkedEncoding /\ [][NextChunkedEncoding]_vars

-----------------------------------------------------------------------------
(* ChunkedBodyEncoder over a payload encoder that waits for its bytes        *)

\* The most bytes granted to the payload encoder and not yet written
MaxGrant == 2

SuspendedInners == [payload : {<<97>>, <<97, 98>>, <<97, 98, 99>>}, kind : {"Gated"}]

\* The buffer lengths offered: one that takes filler, the shortest that
\* takes a chunk, and one that takes the whole body
SuspendedBufLens == {3, 4, 18}

InitSuspended ==
    /\ mode = "chunkenc"
    /\ item \in SuspendedInners
    /\ enc = ChunkedBodyEncoder_new(E_new(item.kind))
    /\ phase = "new"
    /\ wire = <<>>
    /\ input = <<>>
    /\ pos = 0
    /\ dec = ChunkedBodyDecoder_new(RemainingBytesDecoder_new)
    /\ out = NoItem
    /\ err = "ok"

\* n more bytes of the payload become available to the payload encoder.
SuspendedGrant(n) ==
    /\ mode = "chunkenc"
    /\ phase = "encoding"
    /\ enc.inner.type = "Gated"
    /\ enc.inner.granted + n <= MaxGrant
    /\ enc' = [enc EXCEPT !.inner.granted = @ + n]
    /\ UNCHANGED <<mode, phase, item, wire, input, pos, dec, out, err>>

NextSuspended ==
    \/ ChunkedStartEncoding
    \/ \E n \in 1..MaxGrant : SuspendedGrant(n)
    \/ \E L \in SuspendedBufLens : ChunkedEncode(L)
    \/ ChunkedDecodeExact

SpecSuspended == InitSuspended /\ [][NextSuspended]_vars

\* Every kind of payload encoder, among them one that is idle as soon as it
\* is started on an empty payload
TerminationInners ==
    ChunkInners \cup [payload : {<<>>, <<97>>}, kind : {"Gated"}]

InitTermination ==
    /\ mode = "chunkenc"
    /\ item \in TerminationInners
    /\ enc = ChunkedBodyEncoder_new(E_new(item.kind))
    /\ phase = "new"
    /\ wire = <<>>
    /\ input = <<>>
    /\ pos = 0
    /\ dec = ChunkedBodyDecoder_new(RemainingBytesDecoder_new)
    /\ out = NoItem
    /\ err = "ok"

SpecTermination == InitTermination /\ [][NextSuspended]_vars

-----------------------------------------------------------------------------
(* The size line of one chunk, for buffers of every length a usize holds    *)

\* The buffer lengths: 4, the lengths around each bound of the width table,
\* and around 10 + 0xFFFF_FFFF
SizeTableLens ==
    {U64_of(<<4>>)}
    \cup {U64_add(U64_add(AllF(w - 2), w), k) : w \in 3..9, k \in 0..1}
    \cup {U64_sub(U64_add(AllF(w - 2), w), 1) : w \in 3..9}
    \cup {U64_add(AllF(8), k) : k \in 9..12}

\* The number of bytes the payload encoder still has to write: 1, 15, 16,
\* 0xFFFF, 0xFFFF_FFFF, 0x1_0000_0000, and more than any buffer holds
SizeTablePending ==
    {U64_of(<<1>>), AllF(1), U64_of(<<1, 0>>), AllF(4), AllF(8), U64_add(AllF(8), 1),
     AllF(U64Digits)}

InitSizeTable ==
    /\ mode = "sizetable"
    /\ input \in SizeTableLens
    /\ item \in SizeTablePending
    /\ phase = "encoding"
    /\ enc = NoItem
    /\ wire = <<>>
    /\ pos = 0
    /\ dec = NoItem
    /\ out = NoItem
    /\ err = "ok"

\* The part of ChunkedBodyEncoder::encode from the width table to the write
\* of the size line, on a buffer of input bytes: the payload encoder is
\* given the buffer after the reserved width and writes what it has, up to
\* the end of the buffer; the size line is then formatted to the front.
SizeTableEncode ==
    /\ mode = "sizetable"
    /\ phase = "encoding"
    /\ LET offset == ChunkedBodyEncoder_offset(input)
           room == U64_sub(input, offset)
           size == IF U64_le(item, room) THEN item ELSE room
           line == ZeroPaddedHex(size, offset - 2) \o CRLF
       IN  /\ out' = Some([offset |-> offset, size |-> size, line |-> line])
           /\ wire' = line
    /\ phase' = "done"
    /\ UNCHANGED <<mode, item, enc, input, pos, dec, err>>

NextSizeTable == SizeTableEncode

SpecSizeTable == InitSizeTable /\ [][NextSizeTable]_vars

-----------------------------------------------------------------------------
(* A body encoder driven directly, in any order of calls                   *)

\* The most start_encoding calls made on one body encoder.
MaxStarts == 2

\* Output buffers offered to the body encoder
BodyBufLens == {0, 1, 4, MaxBuf}

PayloadEncoders == {"Bytes", "Repeat", "Endless"}

\* pos counts the '0' filler bytes collected for the payload in progress,
\* out lists the results of the start_encoding calls, item.body is the
\* payload of the last one that succeeded and wire what was collected
\* for it.
InitBodyEncoder ==
    /\ mode = "bodyenc"
    /\ \E payload \in PayloadEncoders :
          /\ item = [payload |-> payload, body |-> NoItem,
                     msg |-> Response_new("V1_0", 200, <<79, 75>>, <<>>)]
          /\ enc = BodyEncoder_new(E_new(payload))
    /\ phase = "new"
    /\ wire = <<>>
    /\ input = <<>>
    /\ pos = 0
    /\ dec = NoItem
    /\ out = <<>>
    /\ err = "ok"

\* BodyEncoder::start_encoding, in whatever state the encoder is
BodyStartEncoding(bytes) ==
    /\ mode = "bodyenc"
    /\ Len(out) < MaxStarts
    /\ LET r == BodyEncoder_start_encoding(enc, bytes)
       IN  /\ enc' = r.st
           /\ err' = r.err
           /\ out' = Append(out, r.err)
           /\ item' = IF r.err = "ok" THEN [item EXCEPT !.body = Some(bytes)] ELSE item
           /\ wire' = IF r.err = "ok" THEN <<>> ELSE wire
           /\ pos' = IF r.err = "ok" THEN 0 ELSE pos
           /\ phase' = IF r.err = "ok" THEN "encoding" ELSE phase
    /\ UNCHANGED <<mode, input, dec>>

\* BodyEncoder::update_header on the header of the message
BodyUpdateHeader ==
    /\ mode = "bodyenc"
    /\ Len(item.msg.header) < MaxFields
    /\ LET r == BodyEncoder_update_header(enc, item.msg)
       IN  /\ item' = [item EXCEPT !.msg = r.m]
           /\ err' = r.err
    /\ UNCHANGED <<mode, phase, enc, wire, input, pos, dec, out>>

\* One BodyEncoder::encode call on a buffer of length L
BodyEncode(L) ==
    /\ mode = "bodyenc"
    /\ LET filler == IF enc.kind = "Chunked" THEN Filler(enc.e, L) ELSE 0
           r == BodyEncoder_encode(enc, L)
       IN  /\ pos + filler <= MaxFiller
           /\ pos' = pos + filler
           /\ enc' = r.st
           /\ err' = r.err
           /\ wire' = wire \o Take(r.buf, r.n)
    /\ UNCHANGED <<mode, phase, item, input, dec, out>>

NextBodyEncoder ==
    \/ \E bytes \in Bodies : BodyStartEncoding(bytes)
    \/ BodyUpdateHeader
    \/ \E L \in BodyBufLens : BodyEncode(L)

SpecBodyEncoder == InitBodyEncoder /\ [][NextBodyEncoder]_vars

-----------------------------------------------------------------------------
(* HeadBodyEncoder (body.rs) and a response encoder over it                *)

\* let mut temp_buf = [0; 1024]
TempBufLen == 1024

HeadBodyEncoder_new(inner) == [inner |-> inner]

HeadBodyEncoder_is_idle(s) == BodyEncoder_is_idle(s.inner)

HeadBodyEncoder_start_encoding(s, bytes) ==
    Bind(BodyEncoder_start_encoding(s.inner, bytes), LAMBDA r :
        [st |-> [inner |-> r.st], err |-> r.err])

HeadBodyEncoder_update_header(s, m) == BodyEncoder_update_header(s.inner, m)

\* while !self.0.is_idle() { self.0.encode(&mut temp_buf, Eos::new(false))? }
\* A pass that changes nothing in the inner encoder would repeat for ever.
RECURSIVE HeadBodyEncoder_drain(_)
HeadBodyEncoder_drain(inner) ==
    IF BodyEncoder_is_idle(inner) THEN [st |-> inner, err |-> "ok"]
    ELSE CHOOSE d \in {IF r.err # "ok" THEN [st |-> r.st, err |-> r.err]
                       ELSE IF r.st = inner THEN [st |-> inner, err |-> "Diverges"]
                       ELSE HeadBodyEncoder_drain(r.st) :
                           r \in {BodyEncoder_encode(inner, TempBufLen)}} : TRUE

\* An encode that hands the caller's buffer to the inner encoder.
HeadBodyEncoder_encode_passed_through(s, L) ==
    Bind(BodyEncoder_encode(s.inner, L), LAMBDA r :
        EncRet([inner |-> r.st], r.n, r.buf, r.err))

HeadBodyEncoder_encode(s, L) ==
    Bind(HeadBodyEncoder_drain(s.inner), LAMBDA d :
        EncRet([inner |-> d.st], 0, Blank(L), d.err))

\* MessageEncoder<HeadBodyEncoder<BodyEncoder<E>>>
HeadMessageEncoder_is_idle(s) ==
    BytesEncoder_is_idle(s.before_body) /\ HeadBodyEncoder_is_idle(s.body)

HeadMessageEncoder_start_encoding(s, m) ==
    Bind(HeadBodyEncoder_start_encoding(s.body, m.body), LAMBDA b :
        Bind(HeadBodyEncoder_update_header(b.st, m), LAMBDA h :
        Bind(BytesEncoder_start_encoding(s.before_body, h.m.buf \o CRLF), LAMBDA bb :
        IF ~HeadMessageEncoder_is_idle(s) THEN [st |-> s, err |-> "EncoderFull"]
        ELSE IF b.err # "ok" THEN [st |-> [s EXCEPT !.body = b.st], err |-> b.err]
        ELSE IF h.err # "ok" THEN [st |-> [s EXCEPT !.body = b.st], err |-> h.err]
        ELSE [st |-> [before_body |-> bb.st, body |-> b.st], err |-> bb.err])))

HeadMessageEncoder_encode(s, L) ==
    Bind(BytesEncoder_encode(s.before_body, L), LAMBDA r :
        Bind(IF BytesEncoder_is_idle(s.before_body) THEN 0 ELSE r.n, LAMBDA offset :
        Bind(IF BytesEncoder_is_idle(s.before_body) THEN Blank(L) ELSE r.buf, LAMBDA base :
        Bind(IF BytesEncoder_is_idle(s.before_body) THEN s ELSE [s EXCEPT !.before_body = r.st], LAMBDA t :
        Bind(HeadBodyEncoder_encode(t.body, L - offset), LAMBDA b :
        IF ~BytesEncoder_is_idle(t.before_body) THEN EncRet(t, offset, base, "ok")
        ELSE EncRet([t EXCEPT !.body = b.st],
                    IF b.err = "ok" THEN offset + b.n ELSE 0,
                    Overlay(base, offset, b.buf), b.err))))))

\* Output buffers offered to the response encoder
HeadBufLens == {0, 16, MaxBuf}

\* A response to a HEAD request: the message is built as ever and handed
\* to a response encoder whose body encoder is wrapped in HeadBodyEncoder.
\* item.payload names the payload encoder under the wrapper.
InitHead ==
    /\ mode = "head"
    /\ \E l \in StatusLines, b \in Bodies, payload \in {"Bytes", "Repeat"} :
          /\ item = [parts |-> [version |-> l.version, status |-> l.status,
                                reason |-> l.reason, fields |-> <<>>, body |-> b],
                     msg |-> Response_new(l.version, l.status, l.reason, b),
                     payload |-> payload]
          /\ enc = MessageEncoder_new(HeadBodyEncoder_new(BodyEncoder_new(E_new(payload))))
    /\ phase = "new"
    /\ wire = <<>>
    /\ input = <<>>
    /\ pos = 0
    /\ dec = NoItem
    /\ out = NoItem
    /\ err = "ok"

HeadStartEncoding ==
    /\ mode = "head"
    /\ phase = "new"
    /\ LET r == HeadMessageEncoder_start_encoding(enc, item.msg)
       IN  /\ enc' = r.st
           /\ err' = r.err
           /\ phase' = IF r.err = "ok" THEN "encoding" ELSE "error"
    /\ UNCHANGED <<mode, item, wire, input, pos, dec, out>>

\* One encode call on a buffer of length L; pos counts the calls that
\* stored something.
HeadEncode(L) ==
    /\ mode = "head"
    /\ phase = "encoding"
    /\ ~HeadMessageEncoder_is_idle(enc)
    /\ LET r == HeadMessageEncoder_encode(enc, L)
       IN  /\ enc' = r.st
           /\ err' = r.err
           /\ phase' = IF r.err = "ok" THEN "encoding" ELSE "error"
           /\ wire' = wire \o Take(r.buf, r.n)
           /\ pos' = IF r.n > 0 THEN pos + 1 ELSE pos
    /\ UNCHANGED <<mode, item, input, dec, out>>

NextHead ==
    \/ \E f \in FieldPool : AddField(f)
    \/ HeadStartEncoding
    \/ \E L \in HeadBufLens : HeadEncode(L)

SpecHead == InitHead /\ [][NextHead]_vars

-----------------------------------------------------------------------------
(* The loops of HeaderDecoder::decode, ChunkedBodyDecoder::decode and       *)
(* HeadBodyEncoder::encode, over inner codecs that may make no progress     *)

\* Chunked bodies of one chunk of 1 and of 2 bytes
LoopChunkedInputs ==
    Prefixes(<<49, 13, 10, 97, 13, 10, 48, 13, 10, 13, 10>>)
    \cup Prefixes(<<50, 13, 10, 97, 98, 13, 10, 48, 13, 10, 13, 10>>)

\* A header decoder, a chunked-body decoder over RemainingBytesDecoder and
\* one over a decoder of a single byte; a HEAD response encoder over a
\* repeat() payload encoder and over one that waits for its bytes.
InitLoops ==
    \/ /\ mode = "element"
       /\ \E kind \in {"header", "chunked", "chunked_fixed"} :
             /\ item = [kind |-> kind]
             /\ input \in IF kind = "header" THEN ElementInputs(kind) ELSE LoopChunkedInputs
             /\ dec = Element_new(kind)
       /\ phase = "decoding"
       /\ enc = NoItem
       /\ wire = <<>>
       /\ pos = 0
       /\ out = <<>>
       /\ err = "ok"
    \/ /\ mode = "head"
       /\ \E l \in StatusLines, b \in Bodies, payload \in {"Repeat", "Gated"} :
             /\ item = [parts |-> [version |-> l.version, status |-> l.status,
                                   reason |-> l.reason, fields |-> <<>>, body |-> b],
                        msg |-> Response_new(l.version, l.status, l.reason, b),
                        payload |-> payload]
             /\ enc = MessageEncoder_new(HeadBodyEncoder_new(BodyEncoder_new(E_new(payload))))
       /\ phase = "new"
       /\ wire = <<>>
       /\ input = <<>>
       /\ pos = 0
       /\ dec = NoItem
       /\ out = NoItem
       /\ err = "ok"

NextLoops == NextHead \/ NextElements

SpecLoops == InitLoops /\ [][NextLoops]_vars

-----------------------------------------------------------------------------
(* Headers built field by field and read back (header.rs)                  *)

\* The most fields added to one message.
MaxOrderFields == 3

\* X: y, x: z, Host: a.b and HOST: c
OrderFieldPool == {[name |-> <<88>>, value |-> <<121>>],
                   [name |-> <<120>>, value |-> <<122>>],
                   [name |-> <<72, 111, 115, 116>>, value |-> <<97, 46, 98>>],
                   [name |-> <<72, 79, 83, 84>>, value |-> <<99>>]}

\* x, HOST, host and Via
QueryNames == {<<120>>, <<72, 79, 83, 84>>, <<104, 111, 115, 116>>, <<86, 105, 97>>}

\* GET /a HTTP/1.1 and HTTP/1.0 200 OK; item.fields lists the fields in the
\* order they were added and item.start_len is the length of the start line.
InitOrder ==
    /\ mode = "order"
    /\ \E kind \in {"request", "response"} :
          LET m == IF kind = "request"
                   THEN Request_new(<<71, 69, 84>>, <<47, 97>>, "V1_1", <<>>)
                   ELSE Response_new("V1_0", 200, <<79, 75>>, <<>>)
          IN  item = [kind |-> kind, msg |-> m, fields |-> <<>>, start_len |-> Len(m.buf)]
    /\ phase = "new"
    /\ enc = NoItem
    /\ wire = <<>>
    /\ input = <<>>
    /\ pos = 0
    /\ dec = NoItem
    /\ out = NoItem
    /\ err = "ok"

\* message.header_mut().add_field(HeaderField::new(name, value)?)
OrderAddField(f) ==
    /\ mode = "order"
    /\ phase = "new"
    /\ Len(item.msg.header) < MaxOrderFields
    /\ HeaderField_new(f.name, f.value)
    /\ item' = [item EXCEPT !.msg = HeaderMut_add_field(@, f.name, f.value),
                            !.fields = Append(@, f)]
    /\ UNCHANGED <<mode, phase, enc, wire, input, pos, dec, out, err>>

\* The message goes out as its buffer and an empty line; the receiver has
\* read the start line and sets the header decoder to where it ended.
OrderStartDecoding ==
    /\ mode = "order"
    /\ phase = "new"
    /\ input' = item.msg.buf \o CRLF
    /\ pos' = item.start_len
    /\ dec' = HeaderDecoder_set_start_position(HeaderDecoder_new, item.start_len)
    /\ phase' = "decoding"
    /\ UNCHANGED <<mode, item, enc, wire, out, err>>

\* HeaderDecoder::decode on the rest of the input and finish_decoding once
\* the decoder is idle, as the Buffered combinator calls them
OrderDecode ==
    /\ mode = "order"
    /\ phase = "decoding"
    /\ LET r == HeaderDecoder_decode(dec, Rest(input, pos), FALSE)
           f == HeaderDecoder_finish_decoding(r.st)
           done == r.err = "ok" /\ HeaderDecoder_is_idle(r.st)
       IN  /\ dec' = IF done THEN f.st ELSE r.st
           /\ err' = IF done THEN f.err ELSE r.err
           /\ pos' = pos + r.n
           /\ out' = IF done THEN f.item ELSE out
           /\ phase' = IF done /\ f.err = "ok" THEN "done" ELSE "error"
    /\ UNCHANGED <<mode, item, enc, wire, input>>

NextOrder ==
    \/ \E f \in OrderFieldPool : OrderAddField(f)
    \/ OrderStartDecoding
    \/ OrderDecode

SpecOrder == InitOrder /\ [][NextOrder]_vars

-----------------------------------------------------------------------------
(* What the messages look like on the wire, written down independently of  *)
(* the encoders                                                            *)

IsPrefix(a, b) == Len(a) <= Len(b) /\ a = Take(b, Len(a))

RECURSIVE Decimal(_)
Decimal(n) == IF n < 10 THEN <<48 + n>> ELSE Decimal(n \div 10) \o <<48 + (n % 10)>>

\* "HTTP/1.0" or "HTTP/1.1"
VersionText(v) == <<72, 84, 84, 80, 47, 49, 46, IF v = "V1_0" THEN 48 ELSE 49>>

RECURSIVE FieldLines(_)
FieldLines(fields) ==
    IF fields = <<>> THEN <<>>
    ELSE Head(fields).name \o <<58, 32>> \o Head(fields).value \o <<13, 10>>
         \o FieldLines(Tail(fields))

ContentLengthField(body) == [name |-> ContentLength, value |-> Decimal(Len(body))]

ChunkedField == [name |-> TransferEncoding, value |-> Chunked]

\* The fixed-length form of a request built from the parts p
ExpectedRequestWire(p) ==
    p.method \o <<32>> \o p.target \o <<32>> \o VersionText(p.version) \o <<13, 10>>
    \o FieldLines(Append(p.fields, ContentLengthField(p.body)))
    \o <<13, 10>> \o p.body

\* The fixed-length form of a response built from the parts p
ExpectedResponseWire(p) ==
    VersionText(p.version) \o <<32>> \o Decimal(p.status) \o <<32>> \o p.reason \o <<13, 10>>
    \o FieldLines(Append(p.fields, ContentLengthField(p.body)))
    \o <<13, 10>> \o p.body

\* An encode call stored exactly the first n bytes of the buffer.
StoredExactly(buf, n) == \A i \in 1..Len(buf) : (buf[i] # Untouched) <=> (i <= n)

-----------------------------------------------------------------------------
(* Claims                                                                  *)

\* C1: a request started on a RequestEncoder over a fixed-length body
\* encoder comes out, over any sequence of buffer sizes, as the request
\* line, the added fields in insertion order, the Content-Length field, an
\* empty line and the body; and every encode call returns exactly
\* the number of bytes it stored into the buffer.
C1_RequestEncoderOutput ==
    (mode = "request" /\ phase \in {"encoding", "decoding", "done", "error"}) =>
        /\ IsPrefix(wire, ExpectedRequestWire(item.parts))
        /\ RequestEncoder_is_idle(enc) => wire = ExpectedRequestWire(item.parts)
        /\ \A L \in BufLens :
              LET r == RequestEncoder_encode(enc, L)
              IN  r.err = "ok" /\ StoredExactly(r.buf, r.n)

\* C2: a response started on a ResponseEncoder over a fixed-length body
\* encoder comes out, over any sequence of buffer sizes, as the status line
\* with a three-digit status, the added fields in insertion order, the
\* Content-Length field, an empty line and the body; and every encode call
\* returns exactly the number of bytes it stored into the buffer.
C2_ResponseEncoderOutput ==
    (mode = "response" /\ phase = "encoding" /\ enc.body.kind = "WithLength") =>
        /\ IsPrefix(wire, ExpectedResponseWire(item.parts))
        /\ MessageEncoder_is_idle(enc) => wire = ExpectedResponseWire(item.parts)
        /\ \A L \in BufLens :
              LET r == MessageEncoder_encode(enc, L)
              IN  r.err = "ok" /\ StoredExactly(r.buf, r.n)

\* A response with two different fields and a body has been encoded to the
\* end through the fixed-length encoder, in more than one call.
C2_Witness ==
    /\ mode = "response"
    /\ phase = "encoding"
    /\ enc.body.kind = "WithLength"
    /\ MessageEncoder_is_idle(enc)
    /\ Len(item.parts.fields) = 2
    /\ item.parts.fields[1] # item.parts.fields[2]
    /\ Len(item.parts.body) > 0
    /\ wire = ExpectedResponseWire(item.parts)

\* The fields a message decoded from the encoder's bytes carries: those
\* added, followed by the framing field the body encoder added.
RoundTripFields(p, kind) ==
    Append(p.fields, IF kind = "Chunked" THEN ChunkedField ELSE ContentLengthField(p.body))

RECURSIVE ExpectedPositions(_, _)
ExpectedPositions(layout, off) ==
    IF layout = <<>> THEN <<>>
    ELSE LET f == Head(layout)
             vstart == off + Len(f.name) + 1 + Len(f.pre)
         IN  <<[name |-> [start |-> off, end |-> off + Len(f.name)],
                value |-> [start |-> vstart, end |-> vstart + Len(f.value)]]>>
             \o ExpectedPositions(Tail(layout), off + Len(WireField(f)))

\* C3: the response decoder fed a well-formed response yields the version,
\* status code and reason phrase of the status line, the wire's header
\* fields in wire order, each position indexing its field's bytes in the raw
\* buffer after the status line, and the body bytes.
C3_ResponseDecoder ==
    mode = "response" =>
        /\ phase # "error"
        /\ phase = "done" =>
              /\ out[1].start_line.http_version = item.parts.version
              /\ out[1].start_line.status_code = item.parts.status
              /\ Response_reason_phrase(out[1]) = item.parts.reason
              /\ Header_fields(out[1].buf, out[1].header) = item.parts.fields
              /\ out[1].header = ExpectedPositions(item.layout, Len(item.start_line))
              /\ out[1].buf = item.start_line \o item.header
              /\ out[1].body = item.parts.body

\* A response with two fields written with optional whitespace and a
\* Content-Length body has been decoded.
C3_Witness ==
    /\ mode = "response"
    /\ phase = "done"
    /\ item.framing = "length"
    /\ Len(out[1].header) = 3
    /\ out[1].body = item.parts.body
    /\ Len(item.parts.body) > 0

OneShot ==
    MessageDecoder_decode(ResponseDecoder_with_options(BodyDecoder_new, dec.options),
                          input, TRUE)

\* C7: however the bytes of a valid message are split into fragments, empty
\* ones included, the response decoder produces the message (start line
\* item, raw buffer, field positions, body) and the total consumed count it
\* produces when given all bytes in one call: so it does from every state
\* the fragments fed so far have brought it to.
C7_FragmentationInvariance ==
    mode = "response" =>
        /\ OneShot.err = "ok" /\ OneShot.item # NoItem
        /\ phase = "done" => out = OneShot.item /\ pos = OneShot.n
        /\ phase = "decoding" =>
              LET r == MessageDecoder_decode(dec, Rest(input, pos), TRUE)
              IN  r.err = "ok" /\ r.item = OneShot.item /\ pos + r.n = OneShot.n

\* The decoder is suspended between two fragments inside the whitespace
\* that trails a header field value, with more fields and a chunked body
\* still to come.
C7_Witness ==
    /\ mode = "response"
    /\ phase = "decoding"
    /\ item.framing = "chunked"
    /\ Len(item.layout) = 3
    /\ pos = Len(item.start_line) + Len(WireField(item.layout[1])) - 3
    /\ Len(item.parts.body) > 0

MessageLength(c) ==
    Len(c.start_line) + Len(c.header) + Len(c.body)

\* C9: a decode call never returns a count above the length of the input
\* it was offered; when the message completes the counts sum to the
\* wire bytes from the start line through the body terminator; the
\* bytes that follow the terminator in the input are never consumed.
C9_ExactConsumption ==
    mode = "response" =>
        /\ pos <= MessageLength(item)
        /\ phase = "done" => pos = MessageLength(item)
        /\ phase = "decoding" =>
              \A k \in FragLens, eos \in BOOLEAN :
                 (eos => k = Len(input) - pos) =>
                    LET r == MessageDecoder_decode(dec, SubSeq(input, pos + 1, pos + k), eos)
                    IN  r.n <= k /\ pos + r.n <= MessageLength(item)

\* A chunked response followed by the first bytes of another message has
\* been decoded, the decoder having stopped at the end of the closing CRLF.
C9_Witness ==
    /\ mode = "response"
    /\ phase = "done"
    /\ item.framing = "chunked"
    /\ item.tail # <<>>
    /\ pos = Len(input) - Len(item.tail)
    /\ Len(item.parts.body) > 0

\* C10: over a well-formed chunked body, with sizes in upper or lower case
\* hex and with leading zeros, the chunked body decoder is idle exactly when
\* the closing CRLF has been consumed, no decode call fails, and
\* finish_decoding then returns the chunk data concatenated in order.
C10_ChunkedDecoding ==
    mode = "chunked" =>
        /\ phase = "decoding" =>
              /\ ChunkedBodyDecoder_is_idle(dec) <=> pos = Len(item.body)
              /\ ChunkedBodyDecoder_is_idle(dec) =>
                    LET r == ChunkedBodyDecoder_finish_decoding(dec)
                    IN  r.err = "ok" /\ r.item = Some(Flatten(item.chunks))
              /\ \A k \in FragLens, eos \in BOOLEAN :
                    (eos => k = Len(input) - pos) =>
                       ChunkedBodyDecoder_decode(dec, SubSeq(input, pos + 1, pos + k), eos).err
                           = "ok"
              /\ LET r == ChunkedBodyDecoder_decode(dec, Rest(input, pos), TRUE)
                 IN  ChunkedBodyDecoder_is_idle(r.st) /\ pos + r.n = Len(item.body)
        /\ pos <= Len(item.body)
        /\ (phase = "done" /\ pos = Len(item.body)) => out = Some(Flatten(item.chunks))
        /\ phase = "error" => pos < Len(item.body)

\* A body of three chunks with zero-padded sizes, followed by other bytes,
\* was consumed through its closing CRLF and finished.
C10_Witness ==
    /\ mode = "chunked"
    /\ phase = "done"
    /\ Len(item.chunks) = 3
    /\ item.tail # <<>>
    /\ Len(item.body) > 21
    /\ pos = Len(item.body)
    /\ out = Some(<<97, 98, 99>>)


-----------------------------------------------------------------------------
(* Chunked body encoder                                                    *)

\* 16^k
RECURSIVE Pow16(_)
Pow16(k) == IF k = 0 THEN 1 ELSE 16 * Pow16(k - 1)

\* The width of the size line for a buffer of length L: the least w from 3
\* to 9 with L <= w + (16^(w-2) - 1), and 10 for longer buffers.
SizeLineWidth(L) ==
    IF \E w \in 3..9 : L <= w + Pow16(w - 2) - 1
    THEN CHOOSE w \in 3..9 :
            /\ L <= w + Pow16(w - 2) - 1
            /\ \A v \in 3..(w - 1) : L > v + Pow16(v - 2) - 1
    ELSE 10

IsLowerHex(b) == (48 <= b /\ b <= 57) \/ (97 <= b /\ b <= 102)

\* The number a run of lower-case hex digits denotes
RECURSIVE LowerHexNumber(_)
LowerHexNumber(digits) ==
    IF digits = <<>> THEN 0
    ELSE LET b == digits[Len(digits)]
         IN  16 * LowerHexNumber(SubSeq(digits, 1, Len(digits) - 1))
                 + (IF b <= 57 THEN b - 48 ELSE b - 97 + 10)

\* The payload bytes a payload encoder has not written yet
Pending(inner) ==
    IF inner.type = "Bytes" THEN Rest(inner.bytes, inner.offset)
    ELSE IF inner.items = NoItem THEN <<>> ELSE inner.items[1]

-----------------------------------------------------------------------------
(* Header block decoder                                                    *)

\* Where the name and the value of one field line lie, the line starting at
\* offset off: the name is what precedes the first ':'; the value runs from
\* the first byte after the ':' that is neither SP nor HTAB through the last
\* visible byte before the CRLF (an empty range at its start if there is
\* none).  Offsets count from 0, ends are exclusive.
LinePosition(line, off) ==
    LET colon == CHOOSE i \in 1..Len(line) :
                     line[i] = 58 /\ \A j \in 1..(i - 1) : line[j] # 58
        inside == (colon + 1)..(Len(line) - 2)
        first == CHOOSE i \in (colon + 1)..(Len(line) - 1) :
                     /\ line[i] \notin {32, 9}
                     /\ \A j \in (colon + 1)..(i - 1) : line[j] \in {32, 9}
        visible == {i \in inside : 33 <= line[i] /\ line[i] <= 126}
        last == IF visible = {} THEN first - 1
                ELSE CHOOSE i \in visible : \A j \in visible : j <= i
    IN  [name |-> [start |-> off, end |-> off + colon - 1],
         value |-> [start |-> off + first - 1, end |-> off + last]]

RECURSIVE BlockPositions(_, _)
BlockPositions(lines, off) ==
    IF lines = <<>> THEN <<>>
    ELSE <<LinePosition(Head(lines), off)>>
         \o BlockPositions(Tail(lines), off + Len(Head(lines)))

\* C13: HeaderDecoder fed a well-formed header block, after
\* set_start_position(n), fails in no decode call, is idle exactly when it
\* has consumed the block to its empty line, and then yields one position
\* per field line in wire order: the name before the ':', the value without
\* the whitespace around it, both counted from n plus the lengths of the
\* lines before; "foo: bar\r\n111:222   \r\n\r\n" gives (0..3, 5..8) and
\* (10..13, 14..17).
C13_HeaderPositions ==
    (mode = "header" /\ phase # "new") =>
        /\ phase = "decoding" =>
              /\ HeaderDecoder_is_idle(dec) <=> pos = Len(item.block)
              /\ \A k \in FragLens, eos \in BOOLEAN :
                    (eos => k = Len(input) - pos) =>
                       HeaderDecoder_decode(dec, SubSeq(input, pos + 1, pos + k), eos).err = "ok"
              /\ LET r == HeaderDecoder_decode(dec, Rest(input, pos), TRUE)
                     f == HeaderDecoder_finish_decoding(r.st)
                 IN  /\ pos + r.n = Len(item.block)
                     /\ f.err = "ok"
                     /\ f.item = Some(BlockPositions(item.lines, item.start))
        /\ pos <= Len(item.block)
        /\ phase = "done" => out = Some(BlockPositions(item.lines, item.start))
        /\ phase = "error" => pos < Len(item.block)
        /\ (/\ phase = "done"
            /\ item.start = 0
            /\ item.block = <<102, 111, 111, 58, 32, 98, 97, 114, 13, 10,
                              49, 49, 49, 58, 50, 50, 50, 32, 32, 32, 13, 10, 13, 10>>) =>
              out = Some(<<[name |-> [start |-> 0, end |-> 3],
                           value |-> [start |-> 5, end |-> 8]],
                          [name |-> [start |-> 10, end |-> 13],
                           value |-> [start |-> 14, end |-> 17]]>>)

\* A block of two lines, the first with whitespace on both sides of and
\* inside its value, has been decoded after set_start_position(17).
C13_Witness ==
    /\ mode = "header"
    /\ phase = "done"
    /\ item.start = 17
    /\ Len(item.lines) = 2
    /\ item.lines[1] = <<97, 58, 32, 9, 98, 32, 99, 9, 32, 13, 10>>
    /\ out = Some(<<[name |-> [start |-> 17, end |-> 18],
                    value |-> [start |-> 21, end |-> 24]],
                   LinePosition(item.lines[2], 28)>>)



\* raw[range]
RawBytes(raw, range) == SubSeq(raw, range.start + 1, range.end)

IsVisible(b) == 33 <= b /\ b <= 126

\* C14: in every header block HeaderDecoder has accepted, the bytes of each
\* name range are tchar, and the bytes of each value range that is not
\* empty begin and end with a visible byte and hold nothing but visible
\* bytes, SP and HTAB (no CR, no LF).
C14_HeaderFieldInvariant ==
    (mode = "header" /\ phase = "done") =>
        \A i \in 1..Len(out[1]) :
            LET n == RawBytes(input, out[1][i].name)
                v == RawBytes(input, out[1][i].value)
            IN  /\ \A j \in 1..Len(n) : is_tchar(n[j])
                /\ v # <<>> =>
                      /\ IsVisible(v[1])
                      /\ IsVisible(v[Len(v)])
                      /\ \A j \in 1..Len(v) : IsVisible(v[j]) \/ v[j] \in {32, 9}

\* name ":" OWS value OWS CRLF: a run of tchar, a colon, then visible
\* bytes, SP and HTAB up to the CRLF that ends the line.
IsFieldLine(line) ==
    /\ Len(line) >= 3
    /\ SubSeq(line, Len(line) - 1, Len(line)) = <<13, 10>>
    /\ \E c \in 1..(Len(line) - 2) :
          /\ line[c] = 58
          /\ \A j \in 1..(c - 1) : is_tchar(line[j])
          /\ \A j \in (c + 1)..(Len(line) - 2) : IsVisible(line[j]) \/ line[j] \in {32, 9}

\* Field lines followed by an empty line
RECURSIVE IsHeaderBlock(_)
IsHeaderBlock(bytes) ==
    IF bytes = <<13, 10>> THEN TRUE
    ELSE IF \A i \in 1..Len(bytes) : bytes[i] # 10 THEN FALSE
    ELSE LET e == CHOOSE i \in 1..Len(bytes) :
                      bytes[i] = 10 /\ \A j \in 1..(i - 1) : bytes[j] # 10
         IN  IsFieldLine(Take(bytes, e)) /\ IsHeaderBlock(Rest(bytes, e))

HasHeaderBlock(bytes) == \E n \in 2..Len(bytes) : IsHeaderBlock(Take(bytes, n))

\* C15: HeaderDecoder accepts only field lines of the form name ":" OWS
\* value OWS CRLF: the bytes it has consumed when it yields its item are
\* such lines followed by an empty line, input that begins with such a block
\* is decoded without error, and on any other input (a byte that is not a
\* tchar in front of the colon, a value byte that is not visible, SP, HTAB
\* or CR, a CR not followed at once by LF, a LF without CR) a decode call
\* fails with InvalidInput.
C15_HeaderGrammar ==
    (mode = "header" /\ phase # "new") =>
        /\ phase = "done" => IsHeaderBlock(Take(input, pos))
        /\ (phase = "error" /\ err # "IncompleteDecoding") =>
              (err = "InvalidInput" /\ ~HasHeaderBlock(input))
        /\ (phase = "decoding" /\ ~HasHeaderBlock(input)) =>
              HeaderDecoder_decode(dec, Rest(input, pos), TRUE).err = "InvalidInput"



-----------------------------------------------------------------------------
(* Element decoders                                                        *)

\* C16: the method decoder looks for the first byte that is not a tchar;
\* if that byte is a space the call yields the bytes before it as the
\* method and consumes the space with them, and if it is any other byte the
\* call fails with InvalidInput ("G:T" yields no method "G").
C16_MethodTerminator ==
    (mode = "element" /\ item.kind = "method" /\ phase = "decoding") =>
        LET rest == Rest(input, pos)
            i == Position(rest, not_tchar)
            r == MethodDecoderB_decode(dec, rest, FALSE)
        IN  /\ (i >= 0 /\ rest[i + 1] # 32) => (r.err = "InvalidInput" /\ r.item = NoItem)
            /\ (i >= 0 /\ rest[i + 1] = 32) =>
                  /\ r.err = "ok"
                  /\ r.item = Some(dec.bytes \o Take(rest, i))
                  /\ r.n = i + 1



\* The eight input bytes of the item after the first n items
VersionBlock(n) == SubSeq(input, 8 * n + 1, 8 * n + 8)

\* C17: the version decoder consumes exactly eight bytes per item, yields
\* V1_0 for "HTTP/1.0" and V1_1 for "HTTP/1.1", fails with InvalidInput on
\* any other eight bytes, and decodes a further item after each item it has
\* yielded.
C17_VersionDecoder ==
    (mode = "element" /\ item.kind = "version") =>
        /\ \A i \in 1..Len(out) :
              /\ out[i] = "V1_0" <=> VersionBlock(i - 1) = <<72, 84, 84, 80, 47, 49, 46, 48>>
              /\ out[i] = "V1_1" <=> VersionBlock(i - 1) = <<72, 84, 84, 80, 47, 49, 46, 49>>
        /\ phase = "decoding" =>
              /\ pos = 8 * Len(out) + dec.cbd.offset
              /\ Len(input) >= 8 * Len(out) + 8 =>
                    LET r == Element_decode("version", dec, Rest(input, pos), FALSE)
                        b == VersionBlock(Len(out))
                    IN  IF b = <<72, 84, 84, 80, 47, 49, 46, 48>>
                        THEN r.err = "ok" /\ r.item = Some("V1_0") /\ pos + r.n = 8 * Len(out) + 8
                        ELSE IF b = <<72, 84, 84, 80, 47, 49, 46, 49>>
                        THEN r.err = "ok" /\ r.item = Some("V1_1") /\ pos + r.n = 8 * Len(out) + 8
                        ELSE r.err = "InvalidInput" /\ r.item = NoItem
        /\ phase = "error" =>
              IF Len(input) >= 8 * Len(out) + 8
              THEN /\ err = "InvalidInput"
                   /\ VersionBlock(Len(out)) \notin {<<72, 84, 84, 80, 47, 49, 46, 48>>,
                                                     <<72, 84, 84, 80, 47, 49, 46, 49>>}
              ELSE err = "UnexpectedEos"

\* "HTTP/1.0HTTP/1.1" has been decoded to two items in more than two calls.
C17_Witness ==
    /\ mode = "element"
    /\ item.kind = "version"
    /\ phase = "decoding"
    /\ input = HTTP_1_0 \o HTTP_1_1
    /\ out = <<"V1_0", "V1_1">>
    /\ pos = 16



\* The number three ASCII digits denote
ThreeDigits(bytes) == (bytes[1] - 48) * 100 + (bytes[2] - 48) * 10 + (bytes[3] - 48)

\* Three digits that denote a number from 100 to 999, then a space
IsStatusCodeText(bytes) ==
    /\ Len(bytes) >= 4
    /\ \A i \in 1..3 : 48 <= bytes[i] /\ bytes[i] <= 57
    /\ 100 <= ThreeDigits(bytes) /\ ThreeDigits(bytes) < 1000
    /\ bytes[4] = 32

EosKinds == {"method", "target", "status", "reason", "header", "chunk_size", "chunked"}

\* The result r of a decode call on buf leaves a finished item: the decoders
\* that hand the item out from decode have yielded it at a terminator byte
\* of buf, the others are idle.
ItemComplete(kind, r, buf) ==
    IF kind \in OldApi THEN r.item # NoItem /\ r.n < Len(buf)
    ELSE Element_is_idle(kind, r.st)

\* C19: a decode call with eos = true returns Ok only with a finished item
\* (no unfinished item, no truncated item), and when the same bytes without
\* eos are accepted and leave the item unfinished, the call with eos = true
\* fails with UnexpectedEos.
C19_EosHandling ==
    (mode = "element" /\ item.kind \in EosKinds /\ phase = "decoding" /\ out = <<>>) =>
        LET buf == Rest(input, pos)
            r == Element_decode(item.kind, dec, buf, TRUE)
            q == Element_decode(item.kind, dec, buf, FALSE)
        IN  /\ r.err = "ok" => ItemComplete(item.kind, r, buf)
            /\ (q.err = "ok" /\ ~ItemComplete(item.kind, q, buf)) => r.err = "UnexpectedEos"



\* The decoders that hand their item out from finish_decoding
FinishKinds == ElementKinds \ OldApi

\* C20: finish_decoding called while is_idle() is false fails with
\* IncompleteDecoding and yields no item; ChunkedBodyDecoder in particular
\* returns no body before the zero-size chunk line and its closing CRLF.
C20_FinishPrecondition ==
    (mode = "element" /\ item.kind \in FinishKinds /\ phase = "decoding"
        /\ ~Element_is_idle(item.kind, dec)) =>
        LET f == Element_finish_decoding(item.kind, dec)
        IN  f.err = "IncompleteDecoding" /\ f.item = NoItem



\* Streams offered to a decoder that has produced an item, and to a new one:
\* "/ " "/" " " ; "199 " "09" "1000" ; "OK\r\n" "O" ; "a:b\r\n\r\n" "a:" ;
\* "1\r\n" "1f\r\n" "\r" ; "1\r\na\r\n0\r\n\r\n" "0\r\n\r\n" "1\r\n"
SecondInputs(kind) ==
    CASE kind = "target" -> {<<47, 32>>, <<47>>, <<32>>}
      [] kind = "status" -> {<<49, 57, 57, 32>>, <<48, 57>>, <<49, 48, 48, 48>>}
      [] kind = "reason" -> {<<79, 75, 13, 10>>, <<79>>}
      [] kind = "header" -> {<<97, 58, 98, 13, 10, 13, 10>>, <<97, 58>>}
      [] kind = "chunk_size" -> {<<49, 13, 10>>, <<49, 102, 13, 10>>, <<13>>}
      [] kind = "chunked" -> {<<49, 13, 10, 97, 13, 10, 48, 13, 10, 13, 10>>,
                              <<48, 13, 10, 13, 10>>, <<49, 13, 10>>}

\* What a caller observes when decoder state s is given buf and then asked
\* for its item: the consumed count, the error, and the item or its error.
Outcome(kind, s, buf, eos) ==
    Bind(Element_decode(kind, s, buf, eos), LAMBDA r :
        Bind(Element_finish_decoding(kind, r.st), LAMBDA f :
            <<r.n, r.err, IF r.err = "ok" THEN <<f.err, f.item>> ELSE <<>>>>))

\* A successful finish_decoding leaves a decoder that no caller can tell
\* from a new one.
ElementDecoderReset ==
    (ElementFinishDecoding /\ err' = "ok") =>
        \A buf \in SecondInputs(item.kind), eos \in BOOLEAN :
            Outcome(item.kind, dec', buf, eos) = Outcome(item.kind, Element_new(item.kind), buf, eos)

\* The second message given in one call to a new response decoder
FreshSecond ==
    MessageDecoder_decode(ResponseDecoder_with_options(BodyDecoder_new, DefaultOptions),
                          WireBytes(item.cases[2]), TRUE)

\* The decoder that returned the first message decodes the second as a new
\* decoder does, from every state the fragments of the second bring it to.
MessageDecoderReset ==
    (mode = "reuse" /\ Len(out) >= 1) =>
        /\ phase # "error"
        /\ FreshSecond.err = "ok" /\ FreshSecond.item # NoItem
        /\ (Len(out) = 1 /\ phase = "decoding") =>
              LET r == MessageDecoder_decode(dec, Rest(input, pos), TRUE)
              IN  r.err = "ok" /\ r.item = FreshSecond.item /\ pos + r.n = FreshSecond.n
        /\ Len(out) = 2 =>
              LET c == item.cases[2]
              IN  /\ <<out[2]>> = FreshSecond.item
                  /\ pos = FreshSecond.n
                  /\ IsPrefix(c.start_line, out[2].buf)
                  /\ Len(out[2].buf) <= Len(c.start_line) + Len(c.header)
                  /\ out[2].header = ExpectedPositions(c.layout, Len(c.start_line))
                  /\ Header_fields(out[2].buf, out[2].header) = c.parts.fields
                  /\ out[2].body = c.parts.body

\* C21: once a decoder has produced an item (finish_decoding succeeded on an
\* element decoder, the response decoder returned a message) it decodes the
\* next item as a new decoder does: same item, same consumed counts.  The
\* second message's raw buffer holds only that message's start line and
\* header, its positions index that buffer, and its framing is the one its
\* own header announces.
C21_ResetAfterCompletion == []MessageDecoderReset /\ [][ElementDecoderReset]_vars

\* A response decoder has returned a Content-Length response and then, from
\* a second stream, a chunked response with two more fields.
SecondMessageDecoded ==
    /\ mode = "reuse"
    /\ Len(out) = 2
    /\ item.cases[1].framing = "length"
    /\ item.cases[2].framing = "chunked"
    /\ Len(out[2].header) = 3
    /\ out[2].body = <<98, 97, 114, 98, 97, 122>>



\* A header field name in lower case
LowerName(name) == [i \in 1..Len(name) |-> IF 65 <= name[i] /\ name[i] <= 90 THEN name[i] + 32 ELSE name[i]]

IsFramingName(name) == LowerName(name) \in {ContentLengthLower, TransferEncodingLower}

\* The index of the first field that announces a framing, 0 when none does
FirstFraming(fields) ==
    IF \E i \in 1..Len(fields) : IsFramingName(fields[i].name)
    THEN CHOOSE i \in 1..Len(fields) :
            /\ IsFramingName(fields[i].name)
            /\ \A j \in 1..(i - 1) : ~IsFramingName(fields[j].name)
    ELSE 0

\* The numbers a Content-Length value of one digit denotes
OneDigit(value) == {n \in 0..9 : value = <<48 + n>>}

\* The stream that carries the chunked body "a"
IsChunkStream(bytes) == bytes[1] = 49

\* C22: BodyDecoder.initialize is decided by the first field named
\* content-length or transfer-encoding in any letter case: a numeric
\* Content-Length N bounds the body to exactly N bytes, one that does not
\* parse fails with InvalidInput, Transfer-Encoding "chunked" selects the
\* chunked decoder, any other Transfer-Encoding fails with Other, and
\* without either field the body runs to the end of the stream; later
\* fields change nothing.
C22_BodyDecoderDispatch ==
    mode = "body" =>
        LET i == FirstFraming(item.fields)
            f == item.fields[i]
            length == i # 0 /\ LowerName(f.name) = ContentLengthLower
            encoding == i # 0 /\ LowerName(f.name) = TransferEncodingLower
        IN  /\ phase = "new" => dec = BodyDecoder_new
            /\ (phase # "new" /\ length /\ OneDigit(f.value) # {}) =>
                  \E N \in OneDigit(f.value) :
                     /\ dec.kind = "WithLength"
                     /\ dec.d.expected_bytes = N
                     /\ phase # "error"
                     /\ pos <= N
                     /\ phase = "done" => out = <<Take(input, N)>> /\ pos = N
                     /\ phase = "decoding" =>
                           LET r == BodyDecoder_decode(dec, Rest(input, pos), FALSE)
                           IN  r.err = "ok" /\ r.item = <<Take(input, N)>> /\ pos + r.n = N
            /\ (phase # "new" /\ length /\ OneDigit(f.value) = {}) =>
                  /\ phase = "error" /\ err = "InvalidInput"
                  /\ dec.kind = "None" /\ out = <<>> /\ pos = 0
            /\ (phase # "new" /\ encoding /\ f.value = <<99, 104, 117, 110, 107, 101, 100>>) =>
                  /\ dec.kind = "Chunked"
                  /\ IsChunkStream(input) =>
                        /\ phase # "error"
                        /\ phase = "done" => out = <<(<<97>>)>> /\ pos = 11
                        /\ phase = "decoding" =>
                              LET r == BodyDecoder_decode(dec, Rest(input, pos), FALSE)
                              IN  r.err = "ok" /\ r.item = <<(<<97>>)>> /\ pos + r.n = 11
            /\ (phase # "new" /\ encoding /\ f.value # <<99, 104, 117, 110, 107, 101, 100>>) =>
                  /\ phase = "error" /\ err = "Other"
                  /\ dec.kind = "None" /\ out = <<>> /\ pos = 0
            /\ (phase # "new" /\ i = 0) =>
                  /\ dec.kind = "WithoutLength"
                  /\ phase # "error"
                  /\ phase = "done" => out = <<input>> /\ pos = Len(input)
                  /\ phase = "decoding" =>
                        /\ BodyDecoder_decode(dec, Rest(input, pos), FALSE).item = NoItem
                        /\ LET r == BodyDecoder_decode(dec, Rest(input, pos), TRUE)
                           IN  r.err = "ok" /\ r.item = <<input>> /\ pos + r.n = Len(input)

\* A header CONTENT-LENGTH: 0 followed by Transfer-Encoding: chunked has
\* given an empty body and left the chunked stream untouched.
C22_Witness ==
    /\ mode = "body"
    /\ phase = "done"
    /\ Len(item.fields) = 2
    /\ item.fields[1].value = <<48>>
    /\ item.fields[2].value = Chunked
    /\ IsChunkStream(input)
    /\ out = <<(<<>>)>>
    /\ pos = 0



\* The header of message m as a list of (name, value)
FieldsOf(m) == Header_fields(m.buf, m.header)

\* Message m2 is m with the one field 'name: value' appended
OneFieldAppended(m, m2, name, value) ==
    /\ m2.buf = m.buf \o name \o <<58, 32>> \o value \o <<13, 10>>
    /\ Len(m2.header) = Len(m.header) + 1
    /\ FieldsOf(m2) = Append(FieldsOf(m), [name |-> name, value |-> value])
    /\ m2.start_line = m.start_line

\* C23: start_encoding loads the item into the payload encoder and then
\* chooses by its requiring_bytes: a finite count gives fixed-length framing,
\* and update_header appends the one field Content-Length: n, n being the
\* number of body bytes that will be emitted; an unknown count gives chunked
\* framing and the one field Transfer-Encoding: chunked; an infinite count
\* makes start_encoding fail with Other.
C23_BodyEncoderDispatch ==
    mode = "bodyenc" =>
        /\ Len(out) >= 1 => out[1] = IF item.payload = "Endless" THEN "Other" ELSE "ok"
        /\ enc.kind = "WithLength" <=> (item.payload = "Bytes" /\ out = <<"ok">>)
        /\ enc.kind = "Chunked" <=> (item.payload = "Repeat" /\ out = <<"ok">>)
        /\ enc.kind = "WithLength" =>
              LET n == Len(item.body[1]) - Len(wire)
                  h == BodyEncoder_update_header(enc, item.msg)
                  r == BodyEncoder_encode(enc, MaxBuf)
              IN  /\ IsPrefix(wire, item.body[1])
                  /\ r.err = "ok" /\ r.n = n /\ BodyEncoder_is_idle(r.st)
                  /\ h.err = "ok"
                  /\ OneFieldAppended(item.msg, h.m, ContentLength, Decimal(n))
        /\ enc.kind = "Chunked" =>
              LET h == BodyEncoder_update_header(enc, item.msg)
              IN  /\ h.err = "ok"
                  /\ OneFieldAppended(item.msg, h.m, TransferEncoding,
                                      <<99, 104, 117, 110, 107, 101, 100>>)
        /\ \A i \in 1..Len(item.msg.header) :
              LET f == FieldsOf(item.msg)[i]
              IN  IF item.payload = "Bytes"
                  THEN f.name = ContentLength
                       /\ \E n \in 0..Len(item.body[1]) : f.value = Decimal(n)
                  ELSE f.name = TransferEncoding /\ item.payload = "Repeat"

\* A body encoder over a fixed-length payload has announced Content-Length: 6
\* and then emitted the six bytes.
C23_Witness ==
    /\ mode = "bodyenc"
    /\ item.payload = "Bytes"
    /\ FieldsOf(item.msg) = <<[name |-> ContentLength, value |-> <<54>>]>>
    /\ wire = <<98, 97, 114, 98, 97, 122>>
    /\ enc.kind = "WithLength"



\* C24: update_header returns Ok only when a start_encoding on the encoder
\* has succeeded before; before any start_encoding, and after one that
\* failed, it fails with Other and appends nothing to the header.
C24_UpdateHeaderOrdering ==
    mode = "bodyenc" =>
        LET h == BodyEncoder_update_header(enc, item.msg)
            started == \E i \in 1..Len(out) : out[i] = "ok"
        IN  /\ h.err = "ok" => started
            /\ ~started => h.err = "Other" /\ h.m = item.msg
            /\ (out # <<>> /\ out[Len(out)] # "ok") => h.err = "Other" /\ h.m = item.msg
            /\ item.msg.header # <<>> => started

\* update_header has been called on an encoder that was never started: it
\* failed with Other and the header is still empty.
C24_Witness ==
    /\ mode = "bodyenc"
    /\ out = <<>>
    /\ err = "Other"
    /\ enc.kind = "NotStarted"
    /\ item.msg.header = <<>>



\* The bytes collected for the payload in progress are the whole body in
\* its framing: the payload itself, or chunks that decode to it.
BodyEmitted ==
    IF item.payload = "Bytes" THEN wire = item.body[1]
    ELSE LET r == ChunkedBodyDecoder_decode(ChunkedBodyDecoder_new(RemainingBytesDecoder_new),
                                            wire, TRUE)
             f == ChunkedBodyDecoder_finish_decoding(r.st)
         IN  r.err = "ok" /\ r.n = Len(wire) /\ f.err = "ok" /\ f.item = item.body

\* C25: start_encoding on an encoder that is not idle fails with
\* EncoderFull and leaves the encoder as it was, so that the item in
\* progress is still emitted completely by the encode calls that follow.
C25_StartEncodingWhileBusy ==
    mode = "bodyenc" =>
        /\ ~BodyEncoder_is_idle(enc) =>
              \A bytes \in Bodies :
                 LET r == BodyEncoder_start_encoding(enc, bytes)
                 IN  r.err = "EncoderFull" /\ r.st = enc
        /\ (phase = "encoding" /\ BodyEncoder_is_idle(enc)) => BodyEmitted



\* C26: whenever a body encoder over a payload encoder of finite or unknown
\* length is idle, also after it has emitted a whole item, start_encoding
\* succeeds.
C26_IdleAcceptsItem ==
    (mode = "bodyenc" /\ item.payload # "Endless" /\ BodyEncoder_is_idle(enc)) =>
        \A bytes \in Bodies : BodyEncoder_start_encoding(enc, bytes).err = "ok"

\* What a response encoder without the HEAD wrapper puts before the body of
\* message m
PlainBeforeBody(payload, m) ==
    MessageEncoder_start_encoding(MessageEncoder_new(BodyEncoder_new(E_new(payload))), m)
        .st.before_body.bytes

\* C27: every encode call on a HeadBodyEncoder returns 0 and leaves the
\* caller's buffer as it was, and the inner encoder is idle after a call
\* that returned Ok; update_header through the wrapper gives the header the
\* inner encoder would give; and a response encoded through
\* HeadBodyEncoder(BodyEncoder(e)) comes out as the bytes the plain encoder
\* puts before the body, Content-Length of the whole body included, with
\* no body byte behind them.
C27_HeadBodyEncoder ==
    (mode = "head") =>
        /\ \A L \in HeadBufLens :
              LET r == HeadBodyEncoder_encode(enc.body, L)
              IN  /\ r.buf = Blank(L)
                  /\ r.err = "ok" => (r.n = 0 /\ BodyEncoder_is_idle(r.st.inner))
        /\ HeadBodyEncoder_update_header(enc.body, item.msg)
              = BodyEncoder_update_header(enc.body.inner, item.msg)
        /\ phase = "encoding" =>
              /\ err = "ok"
              /\ IsPrefix(wire, PlainBeforeBody(item.payload, item.msg))
              /\ HeadMessageEncoder_is_idle(enc) =>
                    /\ wire = PlainBeforeBody(item.payload, item.msg)
                    /\ item.payload = "Bytes" =>
                          wire \o item.parts.body = ExpectedResponseWire(item.parts)

\* A response with a field and a six-byte body has been encoded to the end
\* through the HEAD wrapper in more than one call: the Content-Length line
\* says 6 and the empty line is the last thing sent.
C27_Witness ==
    /\ mode = "head"
    /\ phase = "encoding"
    /\ item.payload = "Bytes"
    /\ Len(item.parts.body) = 6
    /\ Len(item.parts.fields) = 1
    /\ pos > 1
    /\ HeadMessageEncoder_is_idle(enc)
    /\ wire \o item.parts.body = ExpectedResponseWire(item.parts)

\* The buffer ends with the CRLF of a line and holds no empty line.
RawBufferShape(buf) ==
    /\ Len(buf) >= 2
    /\ SubSeq(buf, Len(buf) - 1, Len(buf)) = CRLF
    /\ \A i \in 1..(Len(buf) - 3) : SubSeq(buf, i, i + 3) # CRLF \o CRLF

\* C28: the raw buffer of every message, built by new and add_field or
\* produced by a decoder, ends with the CRLF of the start line or of the
\* last header line and holds no empty line; the empty line is what
\* start_encoding puts behind the framing fields of the body encoder.
C28_RawBufferShape ==
    (mode = "response") =>
        /\ RawBufferShape(item.msg.buf)
        /\ phase = "encoding" =>
              LET sent == enc.before_body.bytes
              IN  /\ RawBufferShape(Take(sent, Len(sent) - 2))
                  /\ SubSeq(sent, Len(sent) - 3, Len(sent)) = CRLF \o CRLF
        /\ phase = "done" => RawBufferShape(out[1].buf)

\* The value of the first of fields whose name is name up to ASCII case
FirstMatch(fields, name) ==
    LET hits == {i \in 1..Len(fields) : LowerName(fields[i].name) = LowerName(name)}
    IN  IF hits = {} THEN NoItem
        ELSE Some(fields[CHOOSE i \in hits : \A j \in hits : i <= j].value)

\* The start line as the accessors of the message read it
StartLineOf(kind, m) ==
    IF kind = "request" THEN <<Request_method(m), Request_request_target(m)>>
    ELSE <<Response_reason_phrase(m)>>

\* C29: after any sequence of add_field calls, and after decoding the
\* header so built, fields() yields the fields in the order they were
\* added, duplicates kept; one more add_field appends 'name: value' CRLF to
\* the buffer and one position to the list and leaves every earlier
\* position, the method, the target and the reason phrase as they were;
\* get_field(name) is the value of the first field whose name equals name
\* up to ASCII case, or none.
C29_HeaderOrderAndLookup ==
    (mode = "order") =>
        /\ Header_fields(item.msg.buf, item.msg.header) = item.fields
        /\ \A name \in QueryNames :
              Header_get_field(item.msg.buf, item.msg.header, name)
                  = FirstMatch(item.fields, name)
        /\ \A f \in OrderFieldPool :
              LET m2 == HeaderMut_add_field(item.msg, f.name, f.value)
              IN  /\ m2.buf = item.msg.buf \o f.name \o <<58, 32>> \o f.value \o <<13, 10>>
                  /\ Len(m2.header) = Len(item.msg.header) + 1
                  /\ SubSeq(m2.header, 1, Len(item.msg.header)) = item.msg.header
                  /\ m2.start_line = item.msg.start_line
                  /\ m2.body = item.msg.body
                  /\ StartLineOf(item.kind, m2) = StartLineOf(item.kind, item.msg)
                  /\ Header_fields(m2.buf, m2.header) = Append(item.fields, f)
        /\ StartLineOf(item.kind, item.msg)
              = IF item.kind = "request" THEN <<(<<71, 69, 84>>), <<47, 97>>>>
                ELSE <<(<<79, 75>>)>>
        /\ phase # "error"
        /\ phase = "done" =>
              /\ Header_fields(input, out[1]) = item.fields
              /\ \A name \in QueryNames :
                    Header_get_field(input, out[1], name) = FirstMatch(item.fields, name)

\* Three fields, the first and the last with names that differ in case
\* only, were added and decoded; a lookup by the name in lower case gives
\* the value of the first.
C29_Witness ==
    /\ mode = "order"
    /\ phase = "done"
    /\ Len(item.fields) = 3
    /\ item.fields[1].name = <<72, 79, 83, 84>>
    /\ item.fields[3].name = <<72, 111, 115, 116>>
    /\ Header_get_field(input, out[1], <<104, 111, 115, 116>>) = Some(item.fields[1].value)
    /\ Header_get_field(item.msg.buf, item.msg.header, <<104, 111, 115, 116>>) = Some(<<99>>)

\* C30: every method the method decoder hands out has at least one byte, all
\* of them tchar; every request-target the request-target decoder hands out
\* has at least one byte, all of them vchar; and an input that starts with
\* the terminator is rejected: nothing of it is consumed and no item comes
\* out.
C30_NonEmptyTokens ==
    (mode = "element" /\ item.kind \in {"method", "target"}) =>
        /\ item.kind = "method" =>
              \A i \in 1..Len(out) : Len(out[i]) >= 1 /\ All(out[i], is_tchar)
        /\ item.kind = "target" =>
              /\ \A i \in 1..Len(out) : out[i] >= 1
              /\ Len(out) >= 1 => All(Take(input, out[1]), is_vchar)
        /\ (input # <<>> /\ input[1] = SP) => (out = <<>> /\ pos = 0)

\* The field the body encoder in state b adds to the header
FramingField(b, body) ==
    IF b.kind = "Chunked" THEN ChunkedField ELSE ContentLengthField(body)

\* C31: over any sequence of encode calls with any buffer sizes no body
\* byte is sent before every byte of the start line, the fields and the
\* empty line has been sent, and the body encoder is not driven before;
\* the field of the body encoder stands behind all fields the caller added
\* and before the empty line; and a start_encoding whose body encoder
\* refuses the item hands nothing on to be sent.
C31_EncoderByteOrdering ==
    (mode = "response") =>
        /\ phase = "encoding" =>
              LET head == enc.before_body.bytes
                  sent == Min(Len(wire), Len(head))
              IN  /\ head = item.msg.buf
                             \o FieldLines(<<FramingField(enc.body, item.parts.body)>>) \o CRLF
                  /\ head = Take(ExpectedResponseWire(item.parts), Len(item.msg.buf))
                             \o FieldLines(<<FramingField(enc.body, item.parts.body)>>) \o CRLF
                  /\ Take(wire, sent) = Take(head, sent)
                  /\ enc.before_body.offset = sent
                  /\ ~BytesEncoder_is_idle(enc.before_body) =>
                        /\ Len(wire) < Len(head)
                        /\ \E T \in {"Bytes", "Repeat"} :
                              enc.body = BodyEncoder_start_encoding(
                                             BodyEncoder_new(E_new(T)), item.msg.body).st
        /\ LET r == MessageEncoder_start_encoding(
                        MessageEncoder_new(BodyEncoder_new(Endless_new)), item.msg)
           IN  /\ r.err # "ok"
               /\ r.st.before_body = BytesEncoder_new

\* A response with a field of the caller and a chunked body has been sent
\* to the end: the bytes behind the head are the chunked body.
C31_Witness ==
    /\ mode = "response"
    /\ phase = "encoding"
    /\ enc.body.kind = "Chunked"
    /\ Len(item.parts.fields) >= 1
    /\ Len(item.parts.body) > 0
    /\ MessageEncoder_is_idle(enc)
    /\ Len(wire) > Len(enc.before_body.bytes)
    /\ Take(wire, Len(enc.before_body.bytes)) = enc.before_body.bytes

\* The payload bytes the body decoder in state b has been given and kept
PayloadTaken(b) == BodyDecoderInner_into_inner(b).buf

RECURSIVE SizeLineVerdicts(_, _, _)
SizeLineVerdicts(bytes, i, digits) ==
    IF i > Len(bytes) THEN {"more"}
    ELSE IF IsHex(bytes[i]) THEN SizeLineVerdicts(bytes, i + 1, digits + 1)
    ELSE IF bytes[i] # CR THEN {"invalid"}
    ELSE IF i = Len(bytes) THEN IF digits = 0 THEN {"more", "invalid"} ELSE {"more"}
    ELSE IF digits = 0 \/ bytes[i + 1] # LF THEN {"invalid"}
    ELSE {"accept"}

\* What a decode call's result says of the line
DecodeVerdict(r) ==
    IF r.err = "InvalidInput" THEN "invalid"
    ELSE IF r.err = "ok" /\ ChunkSizeDecoder_is_idle(r.st) THEN "accept"
    ELSE IF r.err = "ok" THEN "more"
    ELSE r.err

\* C33: ChunkSizeDecoder accepts exactly one or more hex digits followed by
\* CRLF: however the line is split over calls, decode fails with
\* InvalidInput on a byte that is neither a hex digit nor CR, on a CR not
\* followed by LF and on a line with no hex digit, becomes idle at the LF of
\* a well-formed line, and asks for more bytes otherwise.
C33_ChunkSizeLineSyntax ==
    (mode = "element" /\ item.kind = "chunk_size" /\ phase = "decoding" /\ out = <<>>
        /\ ~ChunkSizeDecoder_is_idle(dec)) =>
        DecodeVerdict(ChunkSizeDecoder_decode(dec, Rest(input, pos), FALSE))
            \in SizeLineVerdicts(input, 1, 0)

\* The digit values of the bytes before the first CR of a line
RECURSIVE LineDigits(_, _)
LineDigits(bytes, i) ==
    IF i > Len(bytes) \/ bytes[i] = CR THEN <<>>
    ELSE <<HexValue(bytes[i])>> \o LineDigits(bytes, i + 1)

\* The value of a digit string of at most sixteen significant digits, as the
\* sixteen digits of a u64
NumericValue(d) ==
    [i \in 1..(U64Digits - Len(StripZeros(d))) |-> 0] \o StripZeros(d)

\* C34: the size ChunkSizeDecoder emits is the numeric value of the digit
\* string whenever that value is at most 2^64 - 1, leading zeros of any
\* count included, and a digit string of a greater value yields no size.
C34_ChunkSizeArithmetic ==
    (mode = "element" /\ item.kind = "chunk_size" /\ Len(out) >= 1) =>
        LET d == LineDigits(input, 1)
        IN  /\ Len(StripZeros(d)) <= U64Digits
            /\ out[1] = NumericValue(d)

\* C35: for every buffer length L >= 4 and the width w the chunk encoder
\* selects for it, every payload size s the payload encoder can write
\* (s <= L - w) is below 16^(w-2), so the size line is exactly w bytes: w-2
\* hex digits of s and CRLF; also for L > 10 + 0xFFFF_FFFF, where w = 10.
C35_SizeTableSufficiency ==
    (mode = "sizetable" /\ phase = "done") =>
        LET w == out[1].offset
            s == out[1].size
        IN  /\ U64_le(s, U64_sub(input, w))
            /\ Len(StripZeros(s)) <= w - 2
            /\ Len(out[1].line) = w
            /\ U64_of(LineDigits(out[1].line, 1)) = s

\* C36: when ChunkedBodyEncoder::encode is called with L >= 4, nothing
\* queued, and the payload encoder writes 0 bytes and stays non-idle, the
\* call returns 0, stores nothing in the buffer, queues neither delimiter
\* nor suffix and leaves the encoder as it was but for what the payload
\* encoder did to itself; later calls resume, so that the bytes collected
\* in the end are a chunked body of the payload.
C36_SuspendedInner ==
    mode = "chunkenc" =>
        /\ phase # "error"
        /\ phase = "done" => (out = Some(item.payload) /\ input = <<>>)
        /\ phase = "encoding" =>
              \A L \in ChunkBufLens :
                  LET ri == E_encode(enc.inner, L - ChunkedBodyEncoder_offset(U64_from_int(L)))
                      r == ChunkedBodyEncoder_encode(enc, L)
                  IN  (/\ L >= 4
                       /\ BytesEncoder_is_idle(enc.delim)
                       /\ BytesEncoder_is_idle(enc.last)
                       /\ ~E_is_idle(enc.inner)
                       /\ ri.n = 0 /\ ~E_is_idle(ri.st)) =>
                          /\ r.err = "ok"
                          /\ r.n = 0
                          /\ StoredExactly(r.buf, 0)
                          /\ r.st = [enc EXCEPT !.inner = ri.st]
                          /\ BytesEncoder_is_idle(r.st.delim)
                          /\ BytesEncoder_is_idle(r.st.last)

\* After the chunk "1\r\na\r\n" the payload encoder has a byte left and
\* nothing granted: a call on a buffer of 18 bytes returns 0.
C36_Witness ==
    /\ mode = "chunkenc"
    /\ phase = "encoding"
    /\ enc.inner.type = "Gated"
    /\ wire = <<49, 13, 10, 97, 13, 10>>
    /\ enc.inner.granted = 0
    /\ ~E_is_idle(enc.inner)
    /\ BytesEncoder_is_idle(enc.delim)
    /\ BytesEncoder_is_idle(enc.last)
    /\ ChunkedBodyEncoder_encode(enc, 18).n = 0

\* The bytes end with digits '0', CRLF, CRLF.
EndsWithLastChunk(bytes) ==
    /\ Len(bytes) >= 5
    /\ Rest(bytes, Len(bytes) - 5) = <<DIGIT0, CR, LF, CR, LF>>

\* C37: once ChunkedBodyEncoder::is_idle() is true after start_encoding, the
\* bytes emitted end with one last-chunk sequence (a zero size line, CRLF,
\* CRLF) and nothing after it: a chunked-body decoder reads them to the
\* last byte and is idle there and not before; also for an empty payload
\* whose encoder is idle right after start_encoding and for a payload that
\* ends at the end of a buffer.  A call in which the payload encoder wrote
\* s > 0 bytes and became idle queues "\r\n0\r\n\r\n".
C37_StreamTermination ==
    (mode = "chunkenc" /\ phase = "encoding") =>
        /\ ChunkedBodyEncoder_is_idle(enc) =>
              /\ EndsWithLastChunk(wire)
              /\ LET r == ChunkedBodyDecoder_decode(
                              ChunkedBodyDecoder_new(RemainingBytesDecoder_new), wire, FALSE)
                 IN  r.err = "ok" /\ r.n = Len(wire) /\ ChunkedBodyDecoder_is_idle(r.st)
              /\ \A k \in 0..(Len(wire) - 1) :
                    ~ChunkedBodyDecoder_is_idle(
                         ChunkedBodyDecoder_decode(
                             ChunkedBodyDecoder_new(RemainingBytesDecoder_new),
                             Take(wire, k), FALSE).st)
        /\ \A L \in ChunkBufLens :
              LET w == ChunkedBodyEncoder_offset(U64_from_int(L))
                  ri == E_encode(enc.inner, L - w)
                  r == ChunkedBodyEncoder_encode(enc, L)
              IN  (/\ L >= 4
                   /\ BytesEncoder_is_idle(enc.delim)
                   /\ BytesEncoder_is_idle(enc.last)
                   /\ ~E_is_idle(enc.inner)
                   /\ ri.n > 0
                   /\ E_is_idle(ri.st)) =>
                      /\ r.st.last.bytes = LastChunk
                      /\ SubSeq(r.buf, w + ri.n + 1, r.n)
                             \o Rest(r.st.last.bytes, r.st.last.offset) = LastChunk
                      /\ BytesEncoder_is_idle(r.st.delim)

\* C38: every decode and encode call returns: no call enters a loop whose
\* iteration neither consumes a byte (writes a byte, changes the inner
\* codec) nor exits, whatever the inner codec does; in particular not the
\* loops of HeaderDecoder::decode, of ChunkedBodyDecoder::decode when the
\* payload decoder consumes nothing of a chunk that has data left, and of
\* HeadBodyEncoder::encode when the inner encoder writes nothing and is not
\* idle.
C38_EveryCallTerminates == err # "Diverges"

\* The buffers offered to an idle decoder: up to two bytes of SP, '1', ':',
\* CR and LF
IdleProbes == Strings({SP, 49, COLON, CR, LF}, 2)

\* C39: a decode call on an element decoder whose is_idle() is true consumes
\* nothing, returns Ok and leaves the decoder, and with it the item that
\* finish_decoding will hand out, as it was, whatever the bytes offered:
\* request target, status code, reason phrase, header block, chunk size and
\* chunked body, and the name and value decoders inside the header decoder
\* (the value decoder after it has read the value that comes next).
C39_IdleDecodersInert ==
    (mode = "element" /\ item.kind \in FinishKinds /\ phase = "decoding") =>
        \A buf \in IdleProbes, eos \in BOOLEAN :
            /\ Element_is_idle(item.kind, dec) =>
                  Element_decode(item.kind, dec, buf, eos) = RetI(dec, 0, "ok", NoItem)
            /\ (item.kind = "header" /\ dec.field_decoder.name.idle) =>
                  HeaderFieldNameDecoder_decode(dec.field_decoder.name, buf, eos)
                      = Ret(dec.field_decoder.name, 0, "ok")
            /\ item.kind = "header" =>
                  LET v == HeaderFieldValueDecoder_decode(
                               dec.field_decoder.value, Rest(input, pos), FALSE)
                  IN  (v.err = "ok" /\ HeaderFieldValueDecoder_is_idle(v.st)) =>
                          HeaderFieldValueDecoder_decode(v.st, buf, eos) = Ret(v.st, 0, "ok")

\* Where the field line the decoder is reading starts in the input
CurrentLineStart == dec.field_start - item.start

\* C40: is_crlf_reached(), and with it HeaderDecoder::is_idle(), is true
\* only when the two bytes read at the start of the current field line were
\* CR LF: the peek has been read in full, they are the last two bytes
\* consumed, and bytes the peek buffer keeps from an earlier field never
\* make a partly read peek (a lone CR at the end of a slice) look like the
\* end of the block; after finish_decoding is_crlf_reached() is false again.
C40_BlockEndDetection ==
    (mode = "header" /\ phase \in {"decoding", "done"}) =>
        /\ HeaderDecoder_is_idle(dec) = HeaderFieldDecoder_is_crlf_reached(dec.field_decoder)
        /\ (phase = "decoding" /\ HeaderFieldDecoder_is_crlf_reached(dec.field_decoder)) =>
              /\ CopyableBytesDecoder_is_idle(dec.field_decoder.peek)
              /\ pos = CurrentLineStart + 2
              /\ SubSeq(input, CurrentLineStart + 1, CurrentLineStart + 2) = CRLF
        /\ (phase = "decoding" /\ ~CopyableBytesDecoder_is_idle(dec.field_decoder.peek)) =>
              ~HeaderFieldDecoder_is_crlf_reached(dec.field_decoder)
        /\ phase = "done" => ~HeaderFieldDecoder_is_crlf_reached(dec.field_decoder)

\* A field has been read, and of the next line only a CR: the peek buffer
\* holds the CR and a byte of the field before.
C40_Witness ==
    /\ mode = "header"
    /\ phase = "decoding"
    /\ Len(dec.fields) >= 1
    /\ dec.field_decoder.peek.offset = 1
    /\ dec.field_decoder.peek.bytes[1] = CR
    /\ dec.field_decoder.peek.bytes[2] # 0


====
